---- MODULE Spec2Model ----
(***************************************************************************)
(* Model of the worklog-mcp storage / query layer: StorageManager          *)
(* (storage/manager.ts), SQLiteStorage (storage/sqlite.ts), the session    *)
(* manager (models/session.ts), the two validation modules                 *)
(* (models/validation.ts, models/inputValidation.ts) and the MCP tools     *)
(* create_log / get_logs / get_session_logs / search_logs.                 *)
(*                                                                         *)
(* Representation.                                                         *)
(*  - A JavaScript string is a sequence of one-character strings           *)
(*    (<<"a","b">> is "ab", <<>> is "").  The JS values undefined and a    *)
(*    non-string value, and the SQL value NULL, are the one-element        *)
(*    sequences Undefined, NonString and NULL, whose element is not a      *)
(*    character, so they differ from every string.                         *)
(*  - An instant is a number of milliseconds since midnight of the first   *)
(*    day of the model; Date.toISOString() is order preserving on          *)
(*    instants, so the timestamp column holds the instant itself.          *)
(*  - A value of randomUUID() is a natural number: the n-th distinct       *)
(*    UUID.                                                                *)
(***************************************************************************)
EXTENDS Integers, Sequences, FiniteSets, TLC

(***************************************************************************)
(* JavaScript values and string helpers                                    *)
(***************************************************************************)
Undefined == <<"undefined">>

NonString == <<"nonstring">>

NULL == <<"NULL">>

IsString(v) == v # Undefined /\ v # NonString /\ v # NULL

\* JS truthiness of a value that is a string, undefined or a non-string
\* (the non-string values used as inputs are truthy ones, e.g. 123).
Truthy(v) == IF IsString(v) THEN Len(v) > 0 ELSE v = NonString

UpperChars == {"A", "B"}

LowerChars == {"a", "b", "c", "d", "e", "l", "o", "p", "q", "s", "t", "u", "x"}

DigitChars == {"0", "1", "2", "3", "4", "5", "6", "7", "8", "9"}

AlnumChars == UpperChars \cup LowerChars \cup DigitChars

\* String.prototype.trim
RECURSIVE TrimLeft(_)
TrimLeft(s) == IF s # <<>> /\ Head(s) = " " THEN TrimLeft(Tail(s)) ELSE s

RECURSIVE TrimRight(_)
TrimRight(s) ==
  IF s # <<>> /\ s[Len(s)] = " " THEN TrimRight(SubSeq(s, 1, Len(s) - 1)) ELSE s

Trim(s) == TrimRight(TrimLeft(s))

\* does pat occur in s at position i
OccursAt(s, pat, i) ==
  /\ i >= 1
  /\ i + Len(pat) - 1 <= Len(s)
  /\ SubSeq(s, i, i + Len(pat) - 1) = pat

\* String.prototype.replace(/pat/g, rep) for a literal pattern none of whose
\* proper prefixes is a suffix of it, as all the patterns of this program
\* are: occurrences of such a pattern never overlap, so every occurrence
\* is replaced, and the text is cut at an occurrence near its middle to
\* keep the evaluation shallow on long texts
RECURSIVE ReplaceAll(_, _, _)
ReplaceAll(s, pat, rep) ==
  LET mid == (Len(s) + 1) \div 2
      cut == IF \E i \in mid..Len(s) : OccursAt(s, pat, i)
             THEN CHOOSE i \in mid..Len(s) : OccursAt(s, pat, i)
             ELSE CHOOSE i \in 1..(mid - 1) :
                    /\ OccursAt(s, pat, i)
                    /\ \A j \in (i + 1)..(mid - 1) : ~OccursAt(s, pat, j)
  IN  IF \A i \in 1..Len(s) : ~OccursAt(s, pat, i) THEN s
      ELSE ReplaceAll(SubSeq(s, 1, cut - 1), pat, rep) \o rep
             \o ReplaceAll(SubSeq(s, cut + Len(pat), Len(s)), pat, rep)

\* position of the first ">" of s at or after position i, 0 when there is
\* none
FirstGt(s, i) ==
  IF \E k \in i..Len(s) : s[k] = ">"
  THEN CHOOSE k \in i..Len(s) : s[k] = ">" /\ \A j \in i..(k - 1) : s[j] # ">"
  ELSE 0

\* input.replace(/<[^>]*>/g, ''): the first "<" with a ">" after it opens a
\* match that ends at the first ">" after it; the scan goes on behind it
RECURSIVE StripTags(_)
StripTags(s) ==
  LET opens(i) == s[i] = "<" /\ FirstGt(s, i + 1) # 0
      first == CHOOSE i \in 1..Len(s) : opens(i) /\ \A j \in 1..(i - 1) : s[j] # "<"
  IN  IF FirstGt(s, 1) = 0 \/ \A i \in 1..Len(s) : ~opens(i) THEN s
      ELSE SubSeq(s, 1, first - 1)
             \o StripTags(SubSeq(s, FirstGt(s, first + 1) + 1, Len(s)))

\* the remaining "<" left as they are
sanitizeHtml_LeavesLt(input) ==
  LET s0 == StripTags(input)
      s1 == ReplaceAll(s0, <<"&", "l", "t", ";">>, <<"<">>)
      s2 == ReplaceAll(s1, <<"&", "g", "t", ";">>, <<">">>)
      s3 == ReplaceAll(s2, <<"&", "a", "m", "p", ";">>, <<"&">>)
      s4 == ReplaceAll(s3, <<"&", "q", "u", "o", "t", ";">>, <<"\"">>)
  IN  ReplaceAll(s4, <<"&", "#", "x", "2", "7", ";">>, <<"'">>)

sanitizeHtml(input) ==
  LET s0 == StripTags(input)
      s1 == ReplaceAll(s0, <<"&", "l", "t", ";">>, <<"<">>)
      s2 == ReplaceAll(s1, <<"&", "g", "t", ";">>, <<">">>)
      s3 == ReplaceAll(s2, <<"&", "a", "m", "p", ";">>, <<"&">>)
      s4 == ReplaceAll(s3, <<"&", "q", "u", "o", "t", ";">>, <<"\"">>)
      s5 == ReplaceAll(s4, <<"&", "#", "x", "2", "7", ";">>, <<"'">>)
  IN  ReplaceAll(s5, <<"<">>, <<"&", "l", "t", ";">>)

\* sanitizeInput: trims strings, leaves other values alone
sanitizeInput(v) == IF IsString(v) THEN Trim(v) ELSE v

\* /^[a-zA-Z0-9][a-zA-Z0-9_-]*$/
ProjectNameFormat(s) ==
  /\ Len(s) >= 1
  /\ s[1] \in AlnumChars
  /\ \A i \in 1..Len(s) : s[i] \in AlnumChars \cup {"_", "-"}

\* /^[a-zA-Z0-9][a-zA-Z0-9_.-]*$/
SessionIdFormat(s) ==
  /\ Len(s) >= 1
  /\ s[1] \in AlnumChars
  /\ \A i \in 1..Len(s) : s[i] \in AlnumChars \cup {"_", ".", "-"}

(***************************************************************************)
(* Errors.  An error is a record naming the class of the thrown object     *)
(* and, for a ValidationError, its field.                                  *)
(***************************************************************************)
NoError == [type |-> "none", field |-> ""]

ValidationError(f) == [type |-> "ValidationError", field |-> f]

\* `throw new Error(...)' of the session manager and the manager
PlainError == [type |-> "Error", field |-> ""]

\* StorageError of storage/migration.ts (message and cause only)
StorageError == [type |-> "StorageError", field |-> ""]

(***************************************************************************)
(* Program constants                                                       *)
(***************************************************************************)
PROJECT_NAME_MAX == 100

SESSION_ID_MAX == 255

WORK_CONTENT_MAX == 10000

OPTIONAL_FIELD_MAX == 10000

SEARCH_QUERY_MAX == 1000

MAX_LIMIT_VALUE == 1000

SessionIdMaxLength == 128

DefaultLimit == 50

LimitCap == 1000

OptionalFieldNames == <<"successes", "failures", "blockers", "thoughts">>

AllSearchFields == <<"work_content", "successes", "failures", "blockers", "thoughts">>

(***************************************************************************)
(* models/inputValidation.ts                                               *)
(***************************************************************************)
validateStringLength(value, fieldName, minLength, maxLength) ==
  IF Len(value) < minLength \/ Len(value) > maxLength
  THEN ValidationError(fieldName)
  ELSE NoError

validateProjectName(projectName) ==
  LET sanitized == sanitizeInput(projectName)
  IN  IF Len(sanitized) = 0 THEN ValidationError("projectName")
      ELSE IF validateStringLength(sanitized, "projectName", 1, PROJECT_NAME_MAX) # NoError
           THEN ValidationError("projectName")
      ELSE IF ~ProjectNameFormat(sanitized) THEN ValidationError("projectName")
      ELSE NoError

validateSessionId(sessionId) ==
  LET sanitized == sanitizeInput(sessionId)
  IN  IF Len(sanitized) = 0 THEN ValidationError("sessionId")
      ELSE IF validateStringLength(sanitized, "sessionId", 1, SESSION_ID_MAX) # NoError
           THEN ValidationError("sessionId")
      ELSE IF ~SessionIdFormat(sanitized) THEN ValidationError("sessionId")
      ELSE NoError

\* first failing optional field, in the order of optionalFieldNames
RECURSIVE validateOptionalFieldsFrom(_, _)
validateOptionalFieldsFrom(fields, i) ==
  IF i > Len(OptionalFieldNames) THEN NoError
  ELSE LET name == OptionalFieldNames[i]
           value == fields[name]
       IN  IF value = Undefined THEN validateOptionalFieldsFrom(fields, i + 1)
           ELSE IF ~IsString(value) THEN ValidationError(name)
           ELSE IF validateStringLength(value, name, 0, OPTIONAL_FIELD_MAX) # NoError
                THEN ValidationError(name)
           ELSE validateOptionalFieldsFrom(fields, i + 1)

validateOptionalFields(fields) == validateOptionalFieldsFrom(fields, 1)

\* params.new_session is one of "absent", "true", "false", "truthy"
\* ("truthy": a value other than the boolean true that JS treats as true)
hasSessionIdParam(params) == Truthy(params.session_id) /\ IsString(params.session_id)

hasNewSessionParam(params) == params.new_session = "true"

validateCreateLogParameters(params) ==
  IF ~Truthy(params.project_name) \/ ~IsString(params.project_name)
  THEN ValidationError("project_name")
  ELSE IF ~Truthy(params.work_content) \/ ~IsString(params.work_content)
  THEN ValidationError("work_content")
  ELSE IF ~hasSessionIdParam(params) /\ ~hasNewSessionParam(params)
  THEN ValidationError("session_id")
  ELSE IF hasSessionIdParam(params) /\ hasNewSessionParam(params)
  THEN ValidationError("session_id")
  ELSE IF validateProjectName(params.project_name) # NoError
  THEN validateProjectName(params.project_name)
  ELSE IF validateStringLength(params.work_content, "work_content", 1, WORK_CONTENT_MAX) # NoError
  THEN ValidationError("work_content")
  ELSE IF hasSessionIdParam(params) /\ validateSessionId(params.session_id) # NoError
  THEN validateSessionId(params.session_id)
  ELSE validateOptionalFields(params)

validateGetSessionLogsParameters(params) ==
  IF ~Truthy(params.session_id) \/ ~IsString(params.session_id)
  THEN ValidationError("session_id")
  ELSE validateSessionId(params.session_id)

(***************************************************************************)
(* models/validation.ts (the Log Manager's own checks)                     *)
(***************************************************************************)
RECURSIVE validateCreateLogInputOptional(_, _)
validateCreateLogInputOptional(input, i) ==
  IF i > Len(OptionalFieldNames) THEN NoError
  ELSE LET value == input[OptionalFieldNames[i]]
       IN  IF value # Undefined /\ ~IsString(value)
           THEN ValidationError(OptionalFieldNames[i])
           ELSE validateCreateLogInputOptional(input, i + 1)

validateCreateLogInput(input) ==
  IF ~Truthy(input.projectName) \/ ~IsString(input.projectName)
  THEN ValidationError("projectName")
  ELSE IF Len(Trim(input.projectName)) = 0 THEN ValidationError("projectName")
  ELSE IF ~Truthy(input.workContent) \/ ~IsString(input.workContent)
  THEN ValidationError("workContent")
  ELSE IF Len(Trim(input.workContent)) = 0 THEN ValidationError("workContent")
  ELSE IF validateCreateLogInputOptional(input, 1) # NoError
  THEN validateCreateLogInputOptional(input, 1)
  ELSE IF input.sessionId # Undefined /\ ~IsString(input.sessionId)
  THEN ValidationError("sessionId")
  ELSE NoError

(***************************************************************************)
(* models/session.ts                                                       *)
(***************************************************************************)
\* /^[a-zA-Z0-9._-]+$/ and 1 <= length <= 128
isValidSessionId(sessionId) ==
  /\ Len(sessionId) >= 1
  /\ Len(sessionId) <= SessionIdMaxLength
  /\ \A i \in 1..Len(sessionId) : sessionId[i] \in AlnumChars \cup {".", "_", "-"}

\* the string form of the n-th UUID
UuidString(n) == <<"u", "u", "i", "d", "-">> \o <<CHOOSE d \in DigitChars : d = ToString(n % 10)>>

\* getOrCreateSession(sessionId): the resolved id and the error thrown;
\* uuid is the value randomUUID() yields if it is called
getOrCreateSession(sessionId, uuid) ==
  IF Truthy(sessionId)
  THEN IF ~isValidSessionId(sessionId)
       THEN [sessionId |-> Undefined, err |-> PlainError]
       ELSE [sessionId |-> sessionId, err |-> NoError]
  ELSE [sessionId |-> UuidString(uuid), err |-> NoError]

(***************************************************************************)
(* storage/sqlite.ts: the work_logs table and its statements.              *)
(* The table is the sequence of its rows in rowid (insertion) order.  The  *)
(* created_at column (DEFAULT CURRENT_TIMESTAMP) is read by no statement   *)
(* and is left out.                                                        *)
(***************************************************************************)
NoDate == -1

NoNumber == -1

MsPerSecond == 1000

\* A date string given to a read is a number.  n >= 0 is the canonical
\* string of instant n, as toISOString() writes it
\* (2024-01-01T00:00:00.000Z is 0).  SecondString(k) is the string of the
\* k-th second written without milliseconds (2024-01-01T00:00:00Z is
\* SecondString(0)), which new Date() parses and toISOString() accepts.
SecondString(k) == 0 - (k + 2)

IsSecondString(d) == d <= 0 - 2

SecondOf(d) == 0 - d - 2

\* new Date(d).getTime()
ParseDate(d) == IF IsSecondString(d) THEN SecondOf(d) * MsPerSecond ELSE d

\* `timestamp >= ?' and `timestamp <= ?' with the date string bound as it
\* was given: SQLite compares the two texts.  Two canonical strings compare
\* as their instants; against a string without milliseconds the first 19
\* characters decide, and when they agree the timestamp has "." where the
\* string has "Z", so the timestamp is the lesser text.
TimestampGeq(timestamp, d) ==
  IF IsSecondString(d) THEN timestamp \div MsPerSecond > SecondOf(d)
  ELSE timestamp >= d

TimestampLeq(timestamp, d) ==
  IF IsSecondString(d) THEN timestamp \div MsPerSecond <= SecondOf(d)
  ELSE timestamp <= d

Min(a, b) == IF a < b THEN a ELSE b

\* JS `x || null' on a string or undefined
OrNull(v) == IF Truthy(v) THEN v ELSE NULL

\* the INSERT binding failures and blockers in each other's place
RowOf_SwappedColumns(logData) ==
  [log_id       |-> logData.logId,
   timestamp    |-> logData.timestamp,
   session_id   |-> logData.sessionId,
   project_name |-> logData.projectName,
   work_content |-> logData.workContent,
   successes    |-> OrNull(logData.successes),
   failures     |-> OrNull(logData.blockers),
   blockers     |-> OrNull(logData.failures),
   thoughts     |-> OrNull(logData.thoughts)]

\* the parameters bound to the INSERT: the row that is stored
RowOf(logData) ==
  [log_id       |-> logData.logId,
   timestamp    |-> logData.timestamp,
   session_id   |-> logData.sessionId,
   project_name |-> logData.projectName,
   work_content |-> logData.workContent,
   successes    |-> OrNull(logData.successes),
   failures     |-> OrNull(logData.failures),
   blockers     |-> OrNull(logData.blockers),
   thoughts     |-> OrNull(logData.thoughts)]

\* INSERT OR REPLACE in place of INSERT: a stored row with the same
\* log_id is replaced
SQLiteCreateLog_Replace(tbl, logData, busy) ==
  IF busy THEN [table |-> tbl, err |-> StorageError]
  ELSE [table |-> SelectSeq(tbl, LAMBDA r : r.log_id # logData.logId)
                  \o <<RowOf(logData)>>,
        err |-> NoError]

\* the row is written before the failure of the statement is reported
SQLiteCreateLog_WriteThenFail(tbl, logData, busy) ==
  IF \E i \in 1..Len(tbl) : tbl[i].log_id = logData.logId
  THEN [table |-> tbl, err |-> StorageError]
  ELSE [table |-> Append(tbl, RowOf(logData)),
        err |-> IF busy THEN StorageError ELSE NoError]

\* log_id is not declared PRIMARY KEY
SQLiteCreateLog_NoPrimaryKey(tbl, logData, busy) ==
  IF busy THEN [table |-> tbl, err |-> StorageError]
  ELSE [table |-> Append(tbl, RowOf(logData)), err |-> NoError]

\* INSERT INTO work_logs ...: log_id is the PRIMARY KEY, so a row whose
\* log_id is already stored is refused; busy means the statement fails
\* for a reason outside the program (SQLITE_BUSY after busy_timeout, I/O).
\* The statement is atomic: it stores the whole row or nothing.
SQLiteCreateLog(tbl, logData, busy) ==
  IF busy \/ \E i \in 1..Len(tbl) : tbl[i].log_id = logData.logId
  THEN [table |-> tbl, err |-> StorageError]
  ELSE [table |-> Append(tbl, RowOf(logData)), err |-> NoError]

\* WHERE clause of getLogs: one condition per truthy filter, ANDed
WhereLogs(row, f) ==
  /\ Truthy(f.projectName) => row.project_name = f.projectName
  /\ Truthy(f.sessionId) => row.session_id = f.sessionId
  /\ f.startDate # NoDate => TimestampGeq(row.timestamp, f.startDate)
  /\ f.endDate # NoDate => TimestampLeq(row.timestamp, f.endDate)

\* no ORDER BY: the rows come in rowid order
Precedes_Rowid(tbl, i, j, dir, tie) == i < j

\* ORDER BY timestamp DESC|ASC over the rows with index in S.  Rows with
\* equal timestamps come in an order SQL leaves to the engine: tie is the
\* order the engine's plan yields, by rowid ("rowid") or against it.
Precedes(tbl, i, j, dir, tie) ==
  IF tbl[i].timestamp # tbl[j].timestamp
  THEN IF dir = "DESC" THEN tbl[i].timestamp > tbl[j].timestamp
                       ELSE tbl[i].timestamp < tbl[j].timestamp
  ELSE IF tie = "rowid" THEN i < j ELSE i > j

RECURSIVE OrderBy(_, _, _, _)
OrderBy(tbl, S, dir, tie) ==
  IF S = {} THEN <<>>
  ELSE LET first == CHOOSE i \in S : \A j \in S \ {i} : Precedes(tbl, i, j, dir, tie)
       IN  <<tbl[first]>> \o OrderBy(tbl, S \ {first}, dir, tie)

\* OFFSET counted from the row after the first
LimitOffset_SkipsOneLess(rows, lim, off) ==
  IF off > Len(rows) THEN <<>>
  ELSE SubSeq(rows, IF off = 0 THEN 1 ELSE off, Min(off + lim, Len(rows)))

\* LIMIT lim OFFSET off
LimitOffset(rows, lim, off) ==
  IF off >= Len(rows) THEN <<>>
  ELSE SubSeq(rows, off + 1, Min(off + lim, Len(rows)))

SQLiteGetLogs(tbl, filters, tie) ==
  LET limit == IF filters.limit = NoNumber THEN DefaultLimit ELSE filters.limit
      offset == IF filters.offset = NoNumber THEN 0 ELSE filters.offset
      S == {i \in 1..Len(tbl) : WhereLogs(tbl[i], filters)}
      totalCount == Cardinality(S)
      rows == LimitOffset(OrderBy(tbl, S, "DESC", tie), limit, offset)
  IN  [logs |-> rows, totalCount |-> totalCount,
       hasMore |-> offset + Len(rows) < totalCount]

MinTimestamp(tbl, S) == CHOOSE t \in {tbl[i].timestamp : i \in S} :
                          \A i \in S : t <= tbl[i].timestamp

MaxTimestamp(tbl, S) == CHOOSE t \in {tbl[i].timestamp : i \in S} :
                          \A i \in S : t >= tbl[i].timestamp

\* MIN()/MAX() over no row is NULL, which `|| ""' turns into "";
\* NoDate stands for that empty string
SQLiteGetSessionLogs(tbl, sessionId, tie) ==
  LET S == {i \in 1..Len(tbl) : tbl[i].session_id = sessionId}
  IN  [logs |-> OrderBy(tbl, S, "ASC", tie),
       sessionSummary |->
         [sessionId |-> sessionId,
          totalLogs |-> Cardinality(S),
          dateRange |-> [start |-> IF S = {} THEN NoDate ELSE MinTimestamp(tbl, S),
                         end   |-> IF S = {} THEN NoDate ELSE MaxTimestamp(tbl, S)]]]

TableColumns == {"log_id", "timestamp", "session_id", "project_name", "work_content",
                 "successes", "failures", "blockers", "thoughts"}

\* SQLite compares the letters of the ASCII range without regard to case
\* in LIKE
FoldCase(c) == IF c = "A" THEN "a" ELSE IF c = "B" THEN "b" ELSE c

\* text LIKE pat (no ESCAPE clause): % matches any run of characters,
\* _ any one character, any other character itself up to case
RECURSIVE Like(_, _)
Like(text, pat) ==
  IF pat = <<>> THEN text = <<>>
  ELSE IF Head(pat) = "%"
       THEN Like(text, Tail(pat)) \/ (text # <<>> /\ Like(Tail(text), pat))
  ELSE IF text = <<>> THEN FALSE
  ELSE IF Head(pat) = "_" THEN Like(Tail(text), Tail(pat))
  ELSE FoldCase(Head(text)) = FoldCase(Head(pat)) /\ Like(Tail(text), Tail(pat))

\* column LIKE ? on a row: NULL LIKE ... is NULL, which WHERE rejects
ColumnLike(row, column, pattern) ==
  row[column] # NULL /\ Like(row[column], pattern)

\* fields.map(f => `${f} LIKE ?`).join(' OR ') bound to `%${query}%';
\* with no field the WHERE clause is empty and with a name that is no
\* column the statement does not compile: both are SQL errors.  tested is
\* the list of names the statement handed to the engine puts before LIKE
SQLiteSearchLogs(tbl, query, fields, limit, tie) ==
  LET searchPattern == <<"%">> \o query \o <<"%">>
      columns == {fields[k] : k \in 1..Len(fields)}
      S == {i \in 1..Len(tbl) :
              \E c \in columns : ColumnLike(tbl[i], c, searchPattern)}
  IN  IF fields = <<>> \/ \E c \in columns : c \notin TableColumns
      THEN [logs |-> <<>>, totalMatches |-> 0, err |-> StorageError, tested |-> fields]
      ELSE [logs |-> LimitOffset(OrderBy(tbl, S, "DESC", tie), limit, 0),
            totalMatches |-> Cardinality(S), err |-> NoError, tested |-> fields]

RecentActivityLimit == 5

SQLiteGetProjectSummary(tbl, projectName, startDate, endDate, tie) ==
  LET S == {i \in 1..Len(tbl) :
              /\ tbl[i].project_name = projectName
              /\ startDate # NoDate => TimestampGeq(tbl[i].timestamp, startDate)
              /\ endDate # NoDate => TimestampLeq(tbl[i].timestamp, endDate)}
  IN  [projectName |-> projectName,
       totalLogs |-> Cardinality(S),
       sessionCount |-> Cardinality({tbl[i].session_id : i \in S}),
       dateRange |-> [start |-> IF S = {} THEN NoDate ELSE MinTimestamp(tbl, S),
                      end   |-> IF S = {} THEN NoDate ELSE MaxTimestamp(tbl, S)],
       recentActivity |-> LimitOffset(OrderBy(tbl, S, "DESC", tie), RecentActivityLimit, 0)]

(***************************************************************************)
(* storage/manager.ts                                                      *)
(***************************************************************************)
\* JS `v?.trim() || undefined' on a string or undefined
TrimOrUndefined(v) ==
  IF IsString(v) /\ Len(Trim(v)) > 0 THEN Trim(v) ELSE Undefined

\* The synchronous part of StorageManager.createLog: validation, session
\* resolution and the log entry with its generated fields.  logUuid and
\* sessionUuid are the values randomUUID() yields, now is the clock.
ManagerBuildEntry(input, logUuid, sessionUuid, now) ==
  LET verr == validateCreateLogInput(input)
      sess == getOrCreateSession(input.sessionId, sessionUuid)
  IN  IF verr # NoError THEN [err |-> verr, logEntry |-> <<>>]
      ELSE IF sess.err # NoError THEN [err |-> sess.err, logEntry |-> <<>>]
      ELSE [err |-> NoError,
            logEntry |->
              [logId       |-> logUuid,
               timestamp   |-> now,
               sessionId   |-> sess.sessionId,
               projectName |-> Trim(input.projectName),
               workContent |-> Trim(input.workContent),
               successes   |-> TrimOrUndefined(input.successes),
               failures    |-> TrimOrUndefined(input.failures),
               blockers    |-> TrimOrUndefined(input.blockers),
               thoughts    |-> TrimOrUndefined(input.thoughts)]]

\* validateLogFilters of models/validation.ts on filters whose limit and
\* offset are numbers or absent and whose dates are instants or absent
validateLogFilters(filters) ==
  IF filters.limit # NoNumber /\ (filters.limit < 1 \/ filters.limit > LimitCap)
  THEN ValidationError("limit")
  ELSE IF filters.offset # NoNumber /\ filters.offset < 0
  THEN ValidationError("offset")
  ELSE IF filters.projectName # Undefined
          /\ (~IsString(filters.projectName) \/ Len(Trim(filters.projectName)) = 0)
  THEN ValidationError("projectName")
  ELSE IF filters.sessionId # Undefined
          /\ (~IsString(filters.sessionId) \/ Len(Trim(filters.sessionId)) = 0)
  THEN ValidationError("sessionId")
  ELSE NoError

\* JS `n || d' on a number or undefined
NumberOr(n, d) == IF n = NoNumber \/ n = 0 THEN d ELSE n

TrimIfString(v) == IF IsString(v) THEN Trim(v) ELSE v

NormalizeFilters(filters) ==
  [limit       |-> Min(NumberOr(filters.limit, DefaultLimit), LimitCap),
   offset      |-> NumberOr(filters.offset, 0),
   projectName |-> TrimIfString(filters.projectName),
   sessionId   |-> TrimIfString(filters.sessionId),
   startDate   |-> filters.startDate,
   endDate     |-> filters.endDate]

ManagerGetLogs(tbl, filters, tie) ==
  IF validateLogFilters(filters) # NoError
  THEN [err |-> validateLogFilters(filters)]
  ELSE [err |-> NoError] @@ SQLiteGetLogs(tbl, NormalizeFilters(filters), tie)

ManagerGetSessionLogs(tbl, sessionId, tie) ==
  IF ~isValidSessionId(sessionId)
  THEN [err |-> PlainError]
  ELSE [err |-> NoError] @@ SQLiteGetSessionLogs(tbl, sessionId, tie)

ValidationQueryMax == 500

validateSearchQuery(query) ==
  IF ~Truthy(query) \/ ~IsString(query) THEN ValidationError("query")
  ELSE IF Len(Trim(query)) = 0 THEN ValidationError("query")
  ELSE IF Len(query) > ValidationQueryMax THEN ValidationError("query")
  ELSE NoError

ManagerSearchLogs(tbl, query, fields, limit, tie) ==
  IF validateSearchQuery(query) # NoError
  THEN [err |-> validateSearchQuery(query)]
  ELSE SQLiteSearchLogs(tbl, Trim(query),
                        IF fields = Undefined THEN AllSearchFields ELSE fields,
                        Min(NumberOr(limit, DefaultLimit), LimitCap), tie)

ManagerGetProjectSummary(tbl, projectName, startDate, endDate, tie) ==
  IF ~Truthy(projectName) \/ ~IsString(projectName) \/ Len(Trim(projectName)) = 0
  THEN [err |-> PlainError]
  ELSE IF startDate # NoDate /\ endDate # NoDate /\ ParseDate(startDate) > ParseDate(endDate)
  THEN [err |-> PlainError]
  ELSE [err |-> NoError]
       @@ SQLiteGetProjectSummary(tbl, Trim(projectName), startDate, endDate, tie)

\* JS property read: a property the object lacks reads as undefined
Prop(obj, name) == IF name \in DOMAIN obj THEN obj[name] ELSE Undefined

\* JS `a || b' on strings and undefined
OrElse(a, b) == IF Truthy(a) THEN a ELSE b

\* filters of a storage.getLogs({limit, projectName}) call
ScanFilters(limit, projectName) ==
  [limit |-> limit, offset |-> NoNumber, projectName |-> projectName,
   sessionId |-> Undefined, startDate |-> NoDate, endDate |-> NoDate]

ScanLimit == 1000

\* index of the entry of a Map (a sequence of entries in insertion order)
\* under a key, 0 when there is none
MapIndex(map, key) ==
  IF \E k \in 1..Len(map) : map[k].key = key
  THEN CHOOSE k \in 1..Len(map) : map[k].key = key
  ELSE 0

\* Array.prototype.sort((a, b) => b.lastActivity.localeCompare(a.lastActivity)):
\* a stable sort, latest activity first
RECURSIVE SortByLastActivity(_)
SortByLastActivity(entries) ==
  IF entries = <<>> THEN <<>>
  ELSE LET k == CHOOSE i \in 1..Len(entries) :
                  /\ \A j \in 1..Len(entries) :
                       entries[i].lastActivity >= entries[j].lastActivity
                  /\ \A j \in 1..(i - 1) :
                       entries[j].lastActivity < entries[i].lastActivity
       IN  <<entries[k]>>
           \o SortByLastActivity(SubSeq(entries, 1, k - 1)
                                 \o SubSeq(entries, k + 1, Len(entries)))

\* the loop of getAllProjects over response.logs
RECURSIVE ProjectMapOf(_, _)
ProjectMapOf(logs, map) ==
  IF logs = <<>> THEN map
  ELSE LET log == Head(logs)
           key == Prop(log, "projectName")
           k == MapIndex(map, key)
       IN  IF k = 0
           THEN ProjectMapOf(Tail(logs),
                  Append(map, [key |-> key, count |-> 1, lastActivity |-> log.timestamp]))
           ELSE IF log.timestamp > map[k].lastActivity
           THEN ProjectMapOf(Tail(logs),
                  [map EXCEPT ![k] = [key |-> key, count |-> map[k].count + 1,
                                      lastActivity |-> log.timestamp]])
           ELSE ProjectMapOf(Tail(logs), map)

ManagerGetAllProjects(tbl, tie) ==
  LET response == SQLiteGetLogs(tbl, ScanFilters(ScanLimit, Undefined), tie)
      map == ProjectMapOf(response.logs, <<>>)
      entries == [k \in 1..Len(map) |->
                    [projectName |-> map[k].key, totalLogs |-> map[k].count,
                     lastActivity |-> map[k].lastActivity]]
  IN  SortByLastActivity(entries)

\* a row of a session already in the map is not counted
RECURSIVE SessionMapOf_CountsOnce(_, _)
SessionMapOf_CountsOnce(logs, map) ==
  IF logs = <<>> THEN map
  ELSE LET log == Head(logs)
           sessionKey == OrElse(Prop(log, "session_id"), Prop(log, "sessionId"))
           projectName == OrElse(Prop(log, "project_name"), Prop(log, "projectName"))
           k == MapIndex(map, sessionKey)
       IN  IF k = 0
           THEN SessionMapOf_CountsOnce(Tail(logs),
                  Append(map, [key |-> sessionKey, projectName |-> projectName,
                               lastActivity |-> log.timestamp, logCount |-> 1]))
           ELSE SessionMapOf_CountsOnce(Tail(logs), map)

\* the loop of getRecentSessions over response.logs
RECURSIVE SessionMapOf(_, _)
SessionMapOf(logs, map) ==
  IF logs = <<>> THEN map
  ELSE LET log == Head(logs)
           sessionKey == OrElse(Prop(log, "session_id"), Prop(log, "sessionId"))
           projectName == OrElse(Prop(log, "project_name"), Prop(log, "projectName"))
           k == MapIndex(map, sessionKey)
       IN  IF k = 0
           THEN SessionMapOf(Tail(logs),
                  Append(map, [key |-> sessionKey, projectName |-> projectName,
                               lastActivity |-> log.timestamp, logCount |-> 1]))
           ELSE IF log.timestamp > map[k].lastActivity
           THEN SessionMapOf(Tail(logs),
                  [map EXCEPT ![k] = [key |-> sessionKey, projectName |-> projectName,
                                      lastActivity |-> log.timestamp,
                                      logCount |-> map[k].logCount + 1]])
           ELSE SessionMapOf(Tail(logs),
                  [map EXCEPT ![k].logCount = map[k].logCount + 1])

DefaultSessionsLimit == 10

ManagerGetRecentSessions(tbl, limit, projectName, tie) ==
  LET response == SQLiteGetLogs(tbl, ScanFilters(ScanLimit, projectName), tie)
      map == SessionMapOf(response.logs, <<>>)
      entries == [k \in 1..Len(map) |->
                    [sessionId |-> map[k].key, projectName |-> map[k].projectName,
                     lastActivity |-> map[k].lastActivity, logCount |-> map[k].logCount]]
      sorted == SortByLastActivity(entries)
      lim == IF limit = NoNumber THEN DefaultSessionsLimit ELSE limit
  IN  SubSeq(sorted, 1, Min(lim, Len(sorted)))

\* the session found, as a sequence of at most one summary (<<>> is null)
ManagerGetLatestSession(tbl, projectName, tie) ==
  IF ~IsString(projectName) \/ Len(Trim(projectName)) = 0
  THEN [err |-> PlainError, sessions |-> <<>>]
  ELSE [err |-> NoError,
        sessions |-> ManagerGetRecentSessions(tbl, 1, Trim(projectName), tie)]

(***************************************************************************)
(* mcp/tools/createLog.ts                                                  *)
(***************************************************************************)
MsPerDay == 86400000

SuffixModulus == 1000000

Digit(n) == CHOOSE d \in DigitChars : d = ToString(n)

\* new Date().toISOString().split('T')[0]: the YYYY-MM-DD of the instant;
\* the first day of the model is 2024-01-01 and the model stays in January
DateString(now) ==
  LET day == (now \div MsPerDay) + 1
  IN  <<"2", "0", "2", "4", "-", "0", "1", "-">>
      \o <<Digit((day \div 10) % 10), Digit(day % 10)>>

\* Date.now().toString().slice(-6): the last six decimal digits
LastSixDigits(now) ==
  LET n == now % SuffixModulus
  IN  <<Digit((n \div 100000) % 10), Digit((n \div 10000) % 10),
        Digit((n \div 1000) % 10), Digit((n \div 100) % 10),
        Digit((n \div 10) % 10), Digit(n % 10)>>

generateNewSessionId(projectName, now) ==
  <<"c", "l", "a", "u", "d", "e", "-", "c", "o", "d", "e", "-">>
  \o projectName \o <<"-">> \o DateString(now) \o <<"-">> \o LastSixDigits(now)

\* validateSessionExists: the lookup made and the warning logged; every
\* failure of the lookup is caught and only logged
validateSessionExists(tbl, sessionId, projectName, tie) ==
  LET sessionLogs == ManagerGetSessionLogs(tbl, sessionId, tie)
  IN  IF sessionLogs.err # NoError
      THEN [queried |-> FALSE, warning |-> "could not validate"]
      ELSE IF Len(sessionLogs.logs) = 0
      THEN [queried |-> TRUE, warning |-> "no existing logs"]
      ELSE IF \A k \in 1..Len(sessionLogs.logs) :
                /\ Prop(sessionLogs.logs[k], "project_name") # projectName
                /\ Prop(sessionLogs.logs[k], "projectName") # projectName
      THEN [queried |-> TRUE, warning |-> "no logs for project"]
      ELSE [queried |-> TRUE, warning |-> "none"]

\* typeof v === 'string' ? sanitizeHtml(v) : undefined
SanitizeIfString(v) == IF IsString(v) THEN sanitizeHtml(v) ELSE Undefined

\* JS truthiness of args.new_session
NewSessionFlag(args) == args.new_session \in {"true", "truthy"}

NoLookup == [queried |-> FALSE, warning |-> "none"]

\* createLogTool without its own two checks of the session rule: only
\* validateMCPParameters enforces it
CreateLogToolPrepare_NoSessionRule(tbl, args, logUuid, sessionUuid, now, tie) ==
  LET fail(e, lk) == [err |-> e, logEntry |-> <<>>, message |-> "", lookup |-> lk]
      newSession == NewSessionFlag(args)
      sessionId == IF newSession THEN generateNewSessionId(args.project_name, now)
                                 ELSE args.session_id
      lookup == IF newSession THEN NoLookup
                ELSE validateSessionExists(tbl, sessionId, args.project_name, tie)
      input == [sessionId   |-> sessionId,
                projectName |-> args.project_name,
                workContent |-> sanitizeHtml(args.work_content),
                successes   |-> SanitizeIfString(args.successes),
                failures    |-> SanitizeIfString(args.failures),
                blockers    |-> SanitizeIfString(args.blockers),
                thoughts    |-> SanitizeIfString(args.thoughts)]
      built == ManagerBuildEntry(input, logUuid, sessionUuid, now)
  IN  IF validateCreateLogParameters(args) # NoError
      THEN fail(validateCreateLogParameters(args), NoLookup)
      ELSE IF built.err # NoError THEN fail(built.err, lookup)
      ELSE [err |-> NoError, logEntry |-> built.logEntry,
            message |-> IF newSession THEN "New session created"
                                      ELSE "Session continued",
            lookup |-> lookup]

\* createLogTool generating a session id also when one is supplied
CreateLogToolPrepare_FreshSession(tbl, args, logUuid, sessionUuid, now, tie) ==
  LET fail(e, lk) == [err |-> e, logEntry |-> <<>>, message |-> "", lookup |-> lk]
      newSession == NewSessionFlag(args)
      sessionId == generateNewSessionId(args.project_name, now)
      lookup == IF newSession THEN NoLookup
                ELSE validateSessionExists(tbl, sessionId, args.project_name, tie)
      input == [sessionId   |-> sessionId,
                projectName |-> args.project_name,
                workContent |-> sanitizeHtml(args.work_content),
                successes   |-> SanitizeIfString(args.successes),
                failures    |-> SanitizeIfString(args.failures),
                blockers    |-> SanitizeIfString(args.blockers),
                thoughts    |-> SanitizeIfString(args.thoughts)]
      built == ManagerBuildEntry(input, logUuid, sessionUuid, now)
  IN  IF validateCreateLogParameters(args) # NoError
      THEN fail(validateCreateLogParameters(args), NoLookup)
      ELSE IF ~Truthy(args.session_id) /\ ~newSession
      THEN fail(ValidationError("session_id"), NoLookup)
      ELSE IF Truthy(args.session_id) /\ newSession
      THEN fail(ValidationError("session_id"), NoLookup)
      ELSE IF built.err # NoError THEN fail(built.err, lookup)
      ELSE [err |-> NoError, logEntry |-> built.logEntry,
            message |-> IF newSession THEN "New session created"
                                      ELSE "Session continued",
            lookup |-> lookup]

\* a session that the lookup does not find in the project is refused
CreateLogToolPrepare_RequiresSession(tbl, args, logUuid, sessionUuid, now, tie) ==
  LET fail(e, lk) == [err |-> e, logEntry |-> <<>>, message |-> "", lookup |-> lk]
      newSession == NewSessionFlag(args)
      sessionId == IF newSession THEN generateNewSessionId(args.project_name, now)
                                 ELSE args.session_id
      lookup == IF newSession THEN NoLookup
                ELSE validateSessionExists(tbl, sessionId, args.project_name, tie)
      input == [sessionId   |-> sessionId,
                projectName |-> args.project_name,
                workContent |-> sanitizeHtml(args.work_content),
                successes   |-> SanitizeIfString(args.successes),
                failures    |-> SanitizeIfString(args.failures),
                blockers    |-> SanitizeIfString(args.blockers),
                thoughts    |-> SanitizeIfString(args.thoughts)]
      built == ManagerBuildEntry(input, logUuid, sessionUuid, now)
  IN  IF validateCreateLogParameters(args) # NoError
      THEN fail(validateCreateLogParameters(args), NoLookup)
      ELSE IF ~Truthy(args.session_id) /\ ~newSession
      THEN fail(ValidationError("session_id"), NoLookup)
      ELSE IF Truthy(args.session_id) /\ newSession
      THEN fail(ValidationError("session_id"), NoLookup)
      ELSE IF lookup.warning # "none" THEN fail(ValidationError("session_id"), lookup)
      ELSE IF built.err # NoError THEN fail(built.err, lookup)
      ELSE [err |-> NoError, logEntry |-> built.logEntry,
            message |-> IF newSession THEN "New session created"
                                      ELSE "Session continued",
            lookup |-> lookup]

\* createLogTool up to the INSERT: the error of the call or the entry to
\* insert, the message of the response, and the session lookup made
CreateLogToolPrepare(tbl, args, logUuid, sessionUuid, now, tie) ==
  LET fail(e, lk) == [err |-> e, logEntry |-> <<>>, message |-> "", lookup |-> lk]
      newSession == NewSessionFlag(args)
      sessionId == IF newSession THEN generateNewSessionId(args.project_name, now)
                                 ELSE args.session_id
      lookup == IF newSession THEN NoLookup
                ELSE validateSessionExists(tbl, sessionId, args.project_name, tie)
      input == [sessionId   |-> sessionId,
                projectName |-> args.project_name,
                workContent |-> sanitizeHtml(args.work_content),
                successes   |-> SanitizeIfString(args.successes),
                failures    |-> SanitizeIfString(args.failures),
                blockers    |-> SanitizeIfString(args.blockers),
                thoughts    |-> SanitizeIfString(args.thoughts)]
      built == ManagerBuildEntry(input, logUuid, sessionUuid, now)
  IN  IF validateCreateLogParameters(args) # NoError
      THEN fail(validateCreateLogParameters(args), NoLookup)
      ELSE IF ~Truthy(args.session_id) /\ ~newSession
      THEN fail(ValidationError("session_id"), NoLookup)
      ELSE IF Truthy(args.session_id) /\ newSession
      THEN fail(ValidationError("session_id"), NoLookup)
      ELSE IF built.err # NoError THEN fail(built.err, lookup)
      ELSE [err |-> NoError, logEntry |-> built.logEntry,
            message |-> IF newSession THEN "New session created"
                                      ELSE "Session continued",
            lookup |-> lookup]

\* StorageManager.createLog called directly, up to the INSERT
CreateLogPrepare(input, logUuid, sessionUuid, now) ==
  LET built == ManagerBuildEntry(input, logUuid, sessionUuid, now)
  IN  [err |-> built.err, logEntry |-> built.logEntry, message |-> "",
       lookup |-> NoLookup]

(***************************************************************************)
(* mcp/tools/getLogs.ts, getSessionLogs.ts, searchLogs.ts                  *)
(***************************************************************************)
\* validateGetLogsParameters on arguments in the documented snake_case
\* names: only limit and offset are among the names it looks at
validateGetLogsParameters(params) ==
  IF params.limit # NoNumber /\ (params.limit < 0 \/ params.limit > MAX_LIMIT_VALUE)
  THEN ValidationError("limit")
  ELSE IF params.offset # NoNumber /\ params.offset < 0
  THEN ValidationError("offset")
  ELSE NoError

GetLogsTool(tbl, args, tie) ==
  LET filters == [limit       |-> IF args.limit # NoNumber THEN args.limit ELSE DefaultLimit,
                  offset      |-> IF args.offset # NoNumber THEN args.offset ELSE 0,
                  projectName |-> IF IsString(args.project_name) THEN args.project_name
                                                                ELSE Undefined,
                  sessionId   |-> IF IsString(args.session_id) THEN args.session_id
                                                              ELSE Undefined,
                  startDate   |-> args.start_date,
                  endDate     |-> args.end_date]
  IN  IF validateGetLogsParameters(args) # NoError
      THEN [err |-> validateGetLogsParameters(args)]
      ELSE ManagerGetLogs(tbl, filters, tie)

GetSessionLogsTool(tbl, args, tie) ==
  IF validateGetSessionLogsParameters(args) # NoError
  THEN [err |-> validateGetSessionLogsParameters(args)]
  ELSE ManagerGetSessionLogs(tbl, args.session_id, tie)

ValidSearchFields == {"work_content", "successes", "failures", "blockers", "thoughts"}

validateSearchLogsParameters(params) ==
  IF ~Truthy(params.query) \/ ~IsString(params.query) THEN ValidationError("query")
  ELSE IF Len(Trim(params.query)) = 0 THEN ValidationError("query")
  ELSE IF validateStringLength(Trim(params.query), "query", 1, SEARCH_QUERY_MAX) # NoError
  THEN ValidationError("query")
  ELSE IF params.fields # Undefined
          /\ \E k \in 1..Len(params.fields) : params.fields[k] \notin ValidSearchFields
  THEN ValidationError("fields")
  ELSE IF params.limit # NoNumber /\ (params.limit < 0 \/ params.limit > MAX_LIMIT_VALUE)
  THEN ValidationError("limit")
  ELSE NoError

SearchLogsTool(tbl, args, tie) ==
  IF validateSearchLogsParameters(args) # NoError
  THEN [err |-> validateSearchLogsParameters(args)]
  ELSE ManagerSearchLogs(tbl, args.query, args.fields,
                         IF args.limit # NoNumber THEN args.limit ELSE DefaultLimit, tie)

(***************************************************************************)
(* State                                                                   *)
(*   table    the rows of work_logs, in rowid order                        *)
(*   clock    the millisecond clock read by new Date() / Date.now()        *)
(*   pending  the create calls whose synchronous part has run and whose    *)
(*            INSERT has not been executed yet                             *)
(*   resp     the response the last step delivered: operation, arguments,  *)
(*            outcome (NoResponse when the step only started a call)       *)
(*   ledger   the responses of the successful creates, oldest first        *)
(*   tie      the order in which the engine yields rows of equal timestamp *)
(*   db       the database handle and the schema: whether the handle is    *)
(*            open, the isInitialized flag, the committed schema and the   *)
(*            schema inside the transaction left open, if there is one     *)
(*   reading  the read calls whose first statement has run and whose       *)
(*            second has not: the call and what the first statement gave   *)
(***************************************************************************)
VARIABLES table, clock, pending, resp, ledger, tie, db, reading

vars == <<table, clock, pending, resp, ledger, tie, db, reading>>

\* A schema: the objects created and the versions recorded in
\* schema_migrations.  The statements of migration 1 create, in this order,
\* work_logs, its indexes and schema_migrations.
MigrationObjects == <<"work_logs", "indexes", "schema_migrations">>

EmptySchema == [objects |-> {}, versions |-> {}]

MigratedSchema ==
  [objects |-> {MigrationObjects[k] : k \in 1..Len(MigrationObjects)}, versions |-> {1}]

\* the handle after new Database(path) on a new file
FreshDb ==
  [open |-> TRUE, isInitialized |-> FALSE, committed |-> EmptySchema, txn |-> <<>>]

\* the handle after a successful initializeStorage
ReadyDb ==
  [open |-> TRUE, isInitialized |-> TRUE, committed |-> MigratedSchema, txn |-> <<>>]

\* the schema the connection sees: inside a transaction, its own changes
View(d) == IF d.txn = <<>> THEN d.committed ELSE d.txn[1]

\* a statement on work_logs compiles and runs: the handle is open and the
\* connection sees the table
CanRun(d) == d.open /\ "work_logs" \in View(d).objects

MaxRows == 2

MaxClock == 1

NoResponse == [op |-> "none", args |-> <<>>, out |-> [err |-> NoError]]

TableIds(tbl) == {tbl[i].log_id : i \in 1..Len(tbl)}

\* The values randomUUID() can yield for a log id: one already in use
\* (stored or pending), or one never seen, of which the least stands for all
LogUuids == LET used == TableIds(table) \cup {c.logEntry.logId : c \in pending}
            IN  used \cup {CHOOSE n \in 1..(Cardinality(used) + 1) : n \notin used}

SessionUuids == {1}

Init ==
  /\ table = <<>>
  /\ clock = 0
  /\ pending = {}
  /\ resp = NoResponse
  /\ ledger = <<>>
  /\ tie \in {"rowid", "reverse"}
  /\ db = ReadyDb
  /\ reading = {}

Tick ==
  /\ clock < MaxClock
  /\ clock' = clock + 1
  /\ UNCHANGED <<table, pending, resp, ledger, tie, db, reading>>

\* the synchronous part of a create call: it ends the call with an error
\* or leaves the entry to insert pending
BeginCreate(op, args, prepared) ==
  IF prepared.err # NoError
  THEN /\ resp' = [op |-> op, args |-> args,
                   out |-> [err |-> prepared.err, lookup |-> prepared.lookup]]
       /\ UNCHANGED <<table, clock, pending, ledger, tie, db, reading>>
  ELSE LET call == [op |-> op, args |-> args, logEntry |-> prepared.logEntry,
                    message |-> prepared.message, lookup |-> prepared.lookup]
       IN  /\ call \notin pending
           /\ pending' = pending \cup {call}
           /\ resp' = NoResponse
           /\ UNCHANGED <<table, clock, ledger, tie, db, reading>>

\* create_log tool, up to the INSERT
CreateLogToolBegin(Inputs, maxRows, maxPending) ==
  /\ Len(table) + Cardinality(pending) < maxRows
  /\ Cardinality(pending) < maxPending
  /\ \E args \in Inputs, logUuid \in LogUuids, sessionUuid \in SessionUuids :
       BeginCreate("create_log", args,
                   CreateLogToolPrepare(table, args, logUuid, sessionUuid, clock, tie))

\* StorageManager.createLog called directly, up to the INSERT
CreateLogBegin(Inputs, maxRows, maxPending) ==
  /\ Len(table) + Cardinality(pending) < maxRows
  /\ Cardinality(pending) < maxPending
  /\ \E input \in Inputs, logUuid \in LogUuids, sessionUuid \in SessionUuids :
       BeginCreate("createLog", input,
                   CreateLogPrepare(input, logUuid, sessionUuid, clock))

\* the INSERT of a pending create and the response of the call; on a
\* closed handle, or without the table, the statement fails
CreateLogInsert ==
  \E call \in pending, busy \in IF CanRun(db) THEN BOOLEAN ELSE {TRUE} :
    LET done == SQLiteCreateLog(table, call.logEntry, busy)
        out == [err |-> done.err, lookup |-> call.lookup,
                logId |-> call.logEntry.logId,
                sessionId |-> call.logEntry.sessionId,
                timestamp |-> call.logEntry.timestamp,
                message |-> call.message]
    IN  /\ table' = done.table
        /\ pending' = pending \ {call}
        /\ resp' = [op |-> call.op, args |-> call.args, out |-> out]
        /\ ledger' = IF done.err = NoError
                     THEN Append(ledger, [op |-> call.op, args |-> call.args, out |-> out])
                     ELSE ledger
        /\ UNCHANGED <<clock, tie, db, reading>>

\* the outcome of a read whose statements fail: a failure found before
\* the first statement stays, otherwise the call rejects with the
\* StorageError of the storage layer
FailedRead(out) == IF out.err # NoError THEN [err |-> out.err] ELSE [err |-> StorageError]

\* a read call: it only produces a response
Read(op, args, out) ==
  /\ resp' = [op |-> op, args |-> args,
              out |-> IF CanRun(db) THEN out ELSE FailedRead(out)]
  /\ UNCHANGED <<table, clock, pending, ledger, tie, db, reading>>

GetLogs(Inputs) ==
  \E filters \in Inputs : Read("getLogs", filters, ManagerGetLogs(table, filters, tie))

GetLogsToolCall(Inputs) ==
  \E args \in Inputs : Read("get_logs", args, GetLogsTool(table, args, tie))

GetSessionLogs(Inputs) ==
  \E sessionId \in Inputs :
    Read("getSessionLogs", sessionId, ManagerGetSessionLogs(table, sessionId, tie))

GetSessionLogsToolCall(Inputs) ==
  \E sessionId \in Inputs :
    Read("get_session_logs", [session_id |-> sessionId],
         GetSessionLogsTool(table, [session_id |-> sessionId], tie))

SearchLogs(Inputs) ==
  \E a \in Inputs :
    Read("searchLogs", a, ManagerSearchLogs(table, a.query, a.fields, a.limit, tie))

SearchLogsToolCall(Inputs) ==
  \E args \in Inputs : Read("search_logs", args, SearchLogsTool(table, args, tie))

GetProjectSummary(Inputs) ==
  \E a \in Inputs :
    Read("getProjectSummary", a,
         ManagerGetProjectSummary(table, a.projectName, a.startDate, a.endDate, tie))

GetRecentSessions(Inputs) ==
  \E a \in Inputs :
    Read("getRecentSessions", a,
         [err |-> NoError,
          sessions |-> ManagerGetRecentSessions(table, a.limit, a.projectName, tie)])

GetLatestSession(Inputs) ==
  \E projectName \in Inputs :
    Read("getLatestSession", projectName, ManagerGetLatestSession(table, projectName, tie))

GetAllProjects ==
  Read("getAllProjects", <<>>,
       [err |-> NoError, projects |-> ManagerGetAllProjects(table, tie)])

(***************************************************************************)
(* Inputs of the calls                                                     *)
(***************************************************************************)
P == <<"p">>

Q == <<"q">>

A == <<"a">>

S1 == <<"s", "1">>

\* 129 characters: accepted by validateSessionId, refused by isValidSessionId
LongSessionId == [i \in 1..(SessionIdMaxLength + 1) |-> "s"]

SessionIdsOf(tbl) == {tbl[i].session_id : i \in 1..Len(tbl)}

ToolArgs(p, w, s, n) ==
  [project_name |-> p, work_content |-> w, session_id |-> s, new_session |-> n,
   successes |-> Undefined, failures |-> Undefined,
   blockers |-> Undefined, thoughts |-> Undefined]

CreateInput(p, w, s) ==
  [projectName |-> p, workContent |-> w, sessionId |-> s,
   successes |-> Undefined, failures |-> Undefined,
   blockers |-> Undefined, thoughts |-> Undefined]

Filters(l, o, p, s, sd, ed) ==
  [limit |-> l, offset |-> o, projectName |-> p, sessionId |-> s,
   startDate |-> sd, endDate |-> ed]

\* create_log and createLog inputs of Spec: a create_log call that opens a
\* session and succeeds (it runs StorageManager.createLog), and one input
\* failing at each stage (tool validation, the session rule, the manager's
\* validation after sanitization, the session format)
CoreToolInputs ==
  {ToolArgs(P, A, Undefined, "true"),
   ToolArgs(P, A, S1, "true"),
   ToolArgs(<<"-", "p">>, A, Undefined, "true"),
   ToolArgs(P, <<"<", "b", ">">>, S1, "absent"),
   ToolArgs(P, A, LongSessionId, "absent")}

CoreCreateInputs ==
  {CreateInput(<<" ">>, A, Undefined),
   CreateInput(Q, A, LongSessionId)}

NoFilters == Filters(NoNumber, NoNumber, Undefined, Undefined, NoDate, NoDate)

GetLogsArgs(l, o, p, s, sd, ed) ==
  [limit |-> l, offset |-> o, project_name |-> p, session_id |-> s,
   start_date |-> sd, end_date |-> ed]

SearchArgs(q, f, l) == [query |-> q, fields |-> f, limit |-> l]

\* arguments of the reads: every call is made with one of these
AllLogsFilters == {NoFilters}

ProjectLogsArgs == {GetLogsArgs(NoNumber, NoNumber, P, Undefined, NoDate, NoDate)}

SessionOneIds == {S1}

PlainSearchArgs == {SearchArgs(A, Undefined, NoNumber)}

SummaryArgs == {[projectName |-> P, startDate |-> NoDate, endDate |-> NoDate]}

RecentSessionsArgs == {[limit |-> NoNumber, projectName |-> Undefined]}

LatestSessionProjects == {P}

Next ==
  \/ Tick
  \/ CreateLogToolBegin(CoreToolInputs, MaxRows, MaxRows)
  \/ CreateLogBegin(CoreCreateInputs, MaxRows, MaxRows)
  \/ CreateLogInsert
  \/ GetLogs(AllLogsFilters)
  \/ GetLogsToolCall(ProjectLogsArgs)
  \/ GetSessionLogs(SessionOneIds)
  \/ GetSessionLogsToolCall(SessionOneIds)
  \/ SearchLogs(PlainSearchArgs)
  \/ SearchLogsToolCall(PlainSearchArgs)
  \/ GetProjectSummary(SummaryArgs)
  \/ GetRecentSessions(RecentSessionsArgs)
  \/ GetLatestSession(LatestSessionProjects)
  \/ GetAllProjects

Spec == Init /\ [][Next]_vars

(***************************************************************************)
(* Claims checked under Spec                                               *)
(***************************************************************************)
CreateOps == {"create_log", "createLog"}

ReadOps == {"getLogs", "get_logs", "getSessionLogs", "get_session_logs", "searchLogs",
            "search_logs", "getProjectSummary", "getRecentSessions", "getLatestSession",
            "getAllProjects"}

\* C1: a stored row stays stored, at its place and with every field
\* unchanged; the table changes only in a step that delivers a successful
\* create response, and then by exactly one appended row, the one with the
\* returned logId; a step that delivers a read response leaves it unchanged.
C1_AppendOnly ==
  [][/\ Len(table') >= Len(table)
     /\ \A i \in 1..Len(table) : table'[i] = table[i]
     /\ table' # table =>
          /\ Len(table') = Len(table) + 1
          /\ resp'.op \in CreateOps
          /\ resp'.out.err = NoError
          /\ table'[Len(table')].log_id = resp'.out.logId
     /\ ledger' # ledger => Len(table') = Len(table) + 1
     /\ resp'.op \in ReadOps => table' = table]_vars

\* C1 witness: a read has been answered while two rows are stored
C1_Witness == Len(table) >= 2 /\ resp.op = "getAllProjects"

\* C2: a step that delivers a failed create response (validation failure,
\* session-id format failure or storage failure) leaves the table as it was.
C2_FailedCreateNoEffect ==
  [][(resp'.op \in CreateOps /\ resp'.out.err # NoError) => table' = table]_vars

\* C2 witness: a create has failed in storage while a row was stored
C2_Witness ==
  /\ resp.op \in CreateOps
  /\ resp.out.err = StorageError
  /\ Len(table) >= 1

\* C3: no two stored rows share a logId, no two successful creates returned
\* the same logId, and every successful create is stored and counted by an
\* unfiltered getLogs.
C3_UniqueLogIds ==
  /\ \A i, j \in 1..Len(table) : i # j => table[i].log_id # table[j].log_id
  /\ \A i, j \in 1..Len(ledger) : i # j => ledger[i].out.logId # ledger[j].out.logId
  /\ \A i \in 1..Len(ledger) : ledger[i].out.logId \in TableIds(table)
  /\ ManagerGetLogs(table, NoFilters, tie).totalCount = Len(ledger)

\* C3 witness: two creates ran concurrently (the one stamped later was
\* inserted first) and both are stored
C3_Witness ==
  /\ Len(ledger) >= 2
  /\ Len(table) >= 2
  /\ table[1].timestamp > table[2].timestamp

(***************************************************************************)
(* The session rule of create_log                                          *)
(***************************************************************************)
\* create_log arguments over every kind of session_id value (absent, empty
\* string, a session id, a truthy non-string) and of new_session value
\* (absent, true, false, a truthy value other than true)
SessionRuleInputs ==
  {ToolArgs(P, A, s, n) : s \in {Undefined, <<>>, S1, NonString},
                          n \in {"absent", "true", "false", "truthy"}}

\* create_log calls made one after another, and the reads of the tools
NextSessionRule ==
  \/ Tick
  \/ (pending = {} /\ CreateLogToolBegin(SessionRuleInputs, MaxRows, MaxRows))
  \/ CreateLogInsert
  \/ GetSessionLogsToolCall(SessionOneIds)
  \/ GetLogsToolCall(ProjectLogsArgs)

SpecSessionRule == Init /\ [][NextSessionRule]_vars

\* the call supplies a session_id: a value other than the empty string
SuppliesSessionId(args) == args.session_id \notin {Undefined, <<>>}

SuppliesBoth(args) == SuppliesSessionId(args) /\ args.new_session = "true"

SuppliesNeither(args) == ~SuppliesSessionId(args) /\ args.new_session # "true"

\* C4: a create_log call that supplies both a session_id and
\* new_session=true, or neither of them, is answered with a ValidationError;
\* no such call ever has an entry handed to the storage create (pending), and
\* none is among the successful creates, so it writes no row.
C4_SessionRule ==
  /\ (resp.op = "create_log" /\ (SuppliesBoth(resp.args) \/ SuppliesNeither(resp.args)))
       => resp.out.err.type = "ValidationError"
  /\ \A call \in pending : ~SuppliesBoth(call.args) /\ ~SuppliesNeither(call.args)
  /\ \A i \in 1..Len(ledger) :
       ~SuppliesBoth(ledger[i].args) /\ ~SuppliesNeither(ledger[i].args)
  /\ Len(table) = Len(ledger)

\* C4 witness: with a row stored, a call supplying both a (non-string)
\* session_id and new_session=true has been refused
C4_Witness ==
  /\ resp.op = "create_log"
  /\ resp.args.session_id = NonString
  /\ resp.args.new_session = "true"
  /\ resp.out.err = ValidationError("session_id")
  /\ Len(table) >= 1

(***************************************************************************)
(* Opening and continuing sessions through create_log                      *)
(***************************************************************************)
\* the session ids returned by the successful new-session creates of a project
NewSessionsOf(projectName) ==
  {ledger[i].out.sessionId : i \in {k \in 1..Len(ledger) :
      /\ ledger[k].op = "create_log"
      /\ ledger[k].out.message = "New session created"
      /\ ledger[k].args.project_name = projectName}}

\* create_log arguments that open a session in P or Q, or continue in the
\* same project a session that a create_log has opened
SessionInputs ==
  {ToolArgs(p, A, Undefined, "true") : p \in {P, Q}}
  \cup UNION {{ToolArgs(p, A, s, "absent") : s \in NewSessionsOf(p)} : p \in {P, Q}}

\* get_logs filtered on either project
EitherProjectLogsArgs ==
  {GetLogsArgs(NoNumber, NoNumber, p, Undefined, NoDate, NoDate) : p \in {P, Q}}

\* create_log calls made one after another, get_session_logs on the stored
\* sessions and get_logs filtered on a project
NextSession ==
  \/ Tick
  \/ (pending = {} /\ CreateLogToolBegin(SessionInputs, MaxRows, MaxRows))
  \/ CreateLogInsert
  \/ GetSessionLogsToolCall(SessionIdsOf(table))
  \/ GetLogsToolCall(EitherProjectLogsArgs)

SpecSession == Init /\ [][NextSession]_vars

LogIdsOf(logs) == {logs[k].log_id : k \in 1..Len(logs)}

\* the logIds returned by the successful creates that satisfy Cond
CreatedIds(Cond(_)) ==
  {ledger[i].out.logId : i \in {k \in 1..Len(ledger) : Cond(ledger[k])}}

\* C5: a create_log that continues, in the same project, a session S opened
\* by an earlier successful create_log is not refused: unless the INSERT
\* itself fails in the engine it succeeds, returns S and the message
\* 'Session continued'.  get_session_logs(S) then returns exactly the entries
\* created under S, each once, and get_logs filtered on a project reports as
\* totalCount the number of entries created in that project.
C5_SessionContinued ==
  /\ (/\ resp.op = "create_log"
      /\ resp.args.new_session = "absent"
      /\ resp.args.session_id \in NewSessionsOf(resp.args.project_name))
       => /\ resp.out.err \in {NoError, StorageError}
          /\ resp.out.err = NoError =>
               /\ resp.out.sessionId = resp.args.session_id
               /\ resp.out.message = "Session continued"
  /\ (resp.op = "get_session_logs" /\ resp.args.session_id \in UNION {NewSessionsOf(p) : p \in {P, Q}})
       => /\ resp.out.err = NoError
          /\ LET Under(e) == e.out.sessionId = resp.args.session_id
             IN  /\ LogIdsOf(resp.out.logs) = CreatedIds(Under)
                 /\ Len(resp.out.logs) = Cardinality(CreatedIds(Under))
  /\ resp.op = "get_logs"
       => /\ resp.out.err = NoError
          /\ LET In(e) == e.args.project_name = resp.args.project_name
             IN  resp.out.totalCount = Cardinality(CreatedIds(In))

\* C5 witness: get_session_logs has returned the two entries of a session
\* that create_log opened and then continued
C5_Witness ==
  /\ resp.op = "get_session_logs"
  /\ Len(resp.out.logs) = 2
  /\ \E i, j \in 1..Len(ledger) :
       /\ i < j
       /\ ledger[i].out.message = "New session created"
       /\ ledger[j].out.message = "Session continued"
       /\ ledger[j].out.sessionId = resp.args.session_id
       /\ ledger[i].out.sessionId = resp.args.session_id

(***************************************************************************)
(* Round trip of an entry: createLog / create_log, then getSessionLogs     *)
(***************************************************************************)
WithOptional(input, s, f, b, t) ==
  [input EXCEPT !.successes = s, !.failures = f, !.blockers = b, !.thoughts = t]

\* the optional fields of a call: all absent, all empty, all non-empty and
\* different from each other, or mixed (padded, absent, blank, empty)
OptionalProfiles ==
  {<<Undefined, Undefined, Undefined, Undefined>>,
   <<<<>>, <<>>, <<>>, <<>>>>,
   <<<<"a">>, <<"b">>, <<"c">>, <<"d">>>>,
   <<<<" ", "a">>, Undefined, <<" ">>, <<>>>>}

\* valid createLog inputs: a padded work content holding markup, in a given
\* session, under each profile of optional fields
RoundTripCreateInputs ==
  {WithOptional(CreateInput(P, <<" ", "<", "b", ">", "a">>, S1), o[1], o[2], o[3], o[4]) :
     o \in OptionalProfiles}

\* valid create_log arguments: the optional fields hold markup only, or
\* markup around text
RoundTripToolInputs ==
  {WithOptional(ToolArgs(P, <<"<", "b", ">", "a", " ">>, S1, "absent"),
                <<"<", "b", ">">>, <<"<", "b", ">", "x">>, Undefined, <<>>)}

NextRoundTrip ==
  \/ Tick
  \/ (pending = {} /\ CreateLogBegin(RoundTripCreateInputs, MaxRows, MaxRows))
  \/ (pending = {} /\ CreateLogToolBegin(RoundTripToolInputs, MaxRows, MaxRows))
  \/ CreateLogInsert
  \/ GetSessionLogs(SessionIdsOf(table))

SpecRoundTrip == Init /\ [][NextRoundTrip]_vars

\* the value submitted in a field of a successful create (e is its ledger
\* entry), after the trimming and, through create_log, the sanitization
Submitted(e, toolName, inputName) ==
  IF e.op = "create_log"
  THEN IF e.args[toolName] = Undefined THEN Undefined
       ELSE Trim(sanitizeHtml(e.args[toolName]))
  ELSE IF e.args[inputName] = Undefined THEN Undefined
       ELSE Trim(e.args[inputName])

\* a returned value equals a submitted one: an absent field is returned as
\* null
SameValue(returned, submitted) ==
  returned = (IF submitted = Undefined THEN NULL ELSE submitted)

\* the same, with an optional field that is empty after trimming and
\* sanitization returned as null too
SameValueOrNull(returned, submitted) ==
  returned = (IF submitted \in {Undefined, <<>>} THEN NULL ELSE submitted)

\* the row has the returned logId and timestamp of create e and, by Same,
\* the submitted fields
RoundTrips(row, e, Same(_, _)) ==
  /\ row.log_id = e.out.logId
  /\ row.timestamp = e.out.timestamp
  /\ row.project_name = Submitted(e, "project_name", "projectName")
  /\ row.work_content = Submitted(e, "work_content", "workContent")
  /\ \A f \in {"successes", "failures", "blockers", "thoughts"} :
       Same(row[f], Submitted(e, f, f))

\* every successful create of the session just read has its entry in the
\* response
RoundTripBy(Same(_, _)) ==
  (resp.op = "getSessionLogs" /\ resp.out.err = NoError) =>
    \A i \in 1..Len(ledger) :
      ledger[i].out.sessionId = resp.args =>
        \E k \in 1..Len(resp.out.logs) : RoundTrips(resp.out.logs[k], ledger[i], Same)

S2 == <<"s", "2">>

\* the row a successful createLog stores for a project, session and instant
StoredRow(p, s, t, n) ==
  RowOf(ManagerBuildEntry(CreateInput(p, A, s), n, 1, t).logEntry)

\* the tables of at most maxRows rows that creates can leave: concurrent
\* creates are inserted in any order, so the instants come in any order
StoredTables(Kinds, Instants, maxRows) ==
  UNION {{[i \in 1..n |-> StoredRow(f[i][1][1], f[i][1][2], f[i][2], i)] :
            f \in [1..n -> Kinds \X Instants]} : n \in 0..maxRows}

\* a state with a stored table and no call in flight
InitStored(Tables) ==
  /\ table \in Tables
  /\ db = ReadyDb
  /\ reading = {}
  /\ clock = MaxClock
  /\ pending = {}
  /\ resp = NoResponse
  /\ ledger = <<>>
  /\ tie \in {"rowid", "reverse"}

QueryKinds == {<<P, S1>>, <<P, S2>>, <<Q, S1>>}

\* getLogs filters: each page shape with each selection of rows; the dates
\* are canonical strings or, for the last two, strings without milliseconds
QueryFilters ==
  {Filters(lo[1], lo[2], sel[1], sel[2], sel[3], sel[4]) :
     lo \in {<<NoNumber, NoNumber>>, <<1, NoNumber>>, <<1, 1>>, <<2, 1>>},
     sel \in {<<Undefined, Undefined, NoDate, NoDate>>,
              <<P, Undefined, NoDate, NoDate>>,
              <<P, S1, 1, NoDate>>,
              <<Undefined, S1, NoDate, 0>>,
              <<Undefined, Undefined, 1, 1>>,
              <<Undefined, Undefined, SecondString(0), NoDate>>,
              <<Undefined, Undefined, NoDate, SecondString(0)>>}}

SinceSecondLogsArgs ==
  {GetLogsArgs(NoNumber, NoNumber, P, Undefined, SecondString(0), NoDate)}

LimitedSearchArgs == {SearchArgs(A, Undefined, NoNumber), SearchArgs(A, Undefined, 1)}

NextQuery ==
  \/ GetLogs(QueryFilters)
  \/ GetLogsToolCall(SinceSecondLogsArgs)
  \/ SearchLogs(LimitedSearchArgs)
  \/ GetSessionLogs(SessionOneIds)

SpecQuery == InitStored(StoredTables(QueryKinds, 0..MaxClock, MaxRows)) /\ [][NextQuery]_vars

\* the row satisfies every supplied filter, the dates taken as instants
SatisfiesFilters(row, f) ==
  /\ f.projectName # Undefined => row.project_name = f.projectName
  /\ f.sessionId # Undefined => row.session_id = f.sessionId
  /\ f.startDate # NoDate => ParseDate(f.startDate) <= row.timestamp
  /\ f.endDate # NoDate => row.timestamp <= ParseDate(f.endDate)

\* the getLogs response just given is right for the rows that Matches
\* selects: totalCount counts them, the unpaged response lists them, logs
\* are its positions [offset, offset+limit), hasMore tells whether more follow
GetLogsRightFor(Matches(_, _)) ==
  resp.op = "getLogs" =>
    LET f == resp.args
        matching == {table[i].log_id : i \in {k \in 1..Len(table) : Matches(table[k], f)}}
        limit == IF f.limit = NoNumber THEN DefaultLimit ELSE f.limit
        offset == IF f.offset = NoNumber THEN 0 ELSE f.offset
        all == ManagerGetLogs(table, [f EXCEPT !.limit = NoNumber, !.offset = NoNumber], tie).logs
    IN  /\ resp.out.err = NoError
        /\ resp.out.totalCount = Cardinality(matching)
        /\ LogIdsOf(all) = matching
        /\ Len(all) = Cardinality(matching)
        /\ resp.out.logs = [k \in 1..(Min(offset + limit, Len(all)) - Min(offset, Len(all))) |->
                              all[offset + k]]
        /\ resp.out.hasMore = (offset + Len(resp.out.logs) < resp.out.totalCount)

\* C7 as stated: getLogs(filters) counts in totalCount the stored rows that
\* satisfy every supplied filter (projectName equal, sessionId equal,
\* startDate <= timestamp <= endDate), returns the rows at positions
\* [offset, offset+limit) of that set, and hasMore = (offset + returned <
\* totalCount).
C7_GetLogsAsStated == GetLogsRightFor(SatisfiesFilters)

\* C9: the logs of every getLogs and searchLogs response are in
\* non-increasing timestamp order and those of every getSessionLogs response
\* in non-decreasing timestamp order, whatever the order of the rows in the
\* table.
C9_Ordering ==
  /\ (resp.op \in {"getLogs", "get_logs", "searchLogs"} /\ resp.out.err = NoError) =>
       \A k \in 1..(Len(resp.out.logs) - 1) :
         resp.out.logs[k].timestamp >= resp.out.logs[k + 1].timestamp
  /\ (resp.op = "getSessionLogs" /\ resp.out.err = NoError) =>
       \A k \in 1..(Len(resp.out.logs) - 1) :
         resp.out.logs[k].timestamp <= resp.out.logs[k + 1].timestamp

\* C9 witness: getSessionLogs has returned first the row that was inserted
\* second, which carries the earlier timestamp
C9_Witness ==
  /\ resp.op = "getSessionLogs"
  /\ Len(resp.out.logs) = 2
  /\ resp.out.logs[1].log_id = 2
  /\ resp.out.logs[2].log_id = 1
  /\ resp.out.logs[1].timestamp < resp.out.logs[2].timestamp

(***************************************************************************)
(* Two pages of getLogs over one project                                   *)
(***************************************************************************)
MaxPageRows == 11

\* rows of project P with equal and different timestamps, in any order,
\* followed or not by a row of project Q
PageTables ==
  {t \o other : t \in StoredTables({<<P, S1>>}, {0, 1}, MaxPageRows),
                other \in {<<>>, <<StoredRow(Q, S1, 0, 0)>>}}

PageOne == Filters(5, 0, P, Undefined, NoDate, NoDate)

PageTwo == Filters(5, 5, P, Undefined, NoDate, NoDate)

Pages == {PageOne, PageTwo}

NextPage == GetLogs(Pages)

SpecPage == InitStored(PageTables) /\ [][NextPage]_vars

\* C8: for the N rows of one project, getLogs with limit 5 offset 0 and
\* getLogs with limit 5 offset 5 on the same table return disjoint logId
\* sets whose union has min(10, N) elements, and both report totalCount N.
C8_Pages ==
  (resp.op = "getLogs" /\ resp.args \in {PageOne, PageTwo}) =>
    LET one == IF resp.args = PageOne THEN resp.out ELSE ManagerGetLogs(table, PageOne, tie)
        two == IF resp.args = PageTwo THEN resp.out ELSE ManagerGetLogs(table, PageTwo, tie)
        N == Cardinality({i \in 1..Len(table) : table[i].project_name = P})
    IN  /\ one.err = NoError
        /\ two.err = NoError
        /\ LogIdsOf(one.logs) \cap LogIdsOf(two.logs) = {}
        /\ Cardinality(LogIdsOf(one.logs) \cup LogIdsOf(two.logs)) = Min(10, N)
        /\ Len(one.logs) + Len(two.logs) = Min(10, N)
        /\ one.totalCount = N
        /\ two.totalCount = N

\* C8 witness: the second page of 11 rows has been returned, and its first
\* row has the timestamp of the last row of the first page
C8_Witness ==
  /\ resp.op = "getLogs"
  /\ resp.args = PageTwo
  /\ Len(resp.out.logs) = 5
  /\ resp.out.totalCount = 11
  /\ resp.out.hasMore
  /\ resp.out.logs[1].timestamp = ManagerGetLogs(table, PageOne, tie).logs[5].timestamp

(***************************************************************************)
(* searchLogs over stored narrative fields                                 *)
(***************************************************************************)
\* the row a successful createLog stores for a work content and successes
SearchRow(w, s, n) ==
  RowOf(ManagerBuildEntry(WithOptional(CreateInput(P, w, S1), s, Undefined, Undefined, Undefined),
                          n, 1, 0).logEntry)

SearchTables ==
  UNION {{[i \in 1..n |-> SearchRow(f[i][1], f[i][2], i)] :
            f \in [1..n -> {<<"a", "b", "c">>, <<"a", "c">>, <<"x">>}
                           \X {Undefined, <<"b">>}]} : n \in 0..MaxRows}

\* accepted queries: plain text in either case, and text holding the
\* characters _ and %
SearchQueries == {<<"b">>, <<"B">>, <<"a", "c">>, <<"a", "_", "c">>, <<"%">>}

SearchInputs ==
  {SearchArgs(q, f, l) :
     q \in SearchQueries,
     f \in {Undefined, <<"successes">>, <<"work_content">>},
     l \in {NoNumber, 1}}

UnderscoreSearchArgs == {SearchArgs(<<"a", "_", "c">>, Undefined, NoNumber)}

NextSearch ==
  \/ SearchLogs(SearchInputs)
  \/ SearchLogsToolCall(UnderscoreSearchArgs)

SpecSearch == InitStored(SearchTables) /\ [][NextSearch]_vars

\* query occurs in text as a substring, letters compared without regard to
\* case
OccursIn(text, query) ==
  \E i \in 1..Len(text) :
    /\ i + Len(query) - 1 <= Len(text)
    /\ \A k \in 1..Len(query) : FoldCase(text[i + k - 1]) = FoldCase(query[k])

\* C10 as stated: searchLogs(query, fields) matches exactly the stored rows
\* in which query occurs as a substring of one of the selected fields (all
\* five narrative fields when fields is omitted); totalMatches counts them
\* whatever the limit, and the logs returned are among them.
C10_SearchAsStated ==
  resp.op = "searchLogs" =>
    LET selected == IF resp.args.fields = Undefined
                    THEN {AllSearchFields[k] : k \in 1..Len(AllSearchFields)}
                    ELSE {resp.args.fields[k] : k \in 1..Len(resp.args.fields)}
        matching == {table[i].log_id : i \in {k \in 1..Len(table) :
                        \E c \in selected :
                          /\ table[k][c] # NULL
                          /\ OccursIn(table[k][c], resp.args.query)}}
        limit == IF resp.args.limit = NoNumber THEN DefaultLimit ELSE resp.args.limit
    IN  /\ resp.out.err = NoError
        /\ resp.out.totalMatches = Cardinality(matching)
        /\ LogIdsOf(resp.out.logs) \subseteq matching
        /\ Len(resp.out.logs) = Min(limit, Cardinality(matching))

(***************************************************************************)
(* A requested limit of 0                                                  *)
(***************************************************************************)
\* get_logs and getLogs with a limit of 0, of 1 and without a limit
LimitLogsArgs ==
  {GetLogsArgs(l, NoNumber, Undefined, Undefined, NoDate, NoDate) : l \in {0, 1, NoNumber}}

LimitFilters ==
  {Filters(l, NoNumber, Undefined, Undefined, NoDate, NoDate) : l \in {0, 1, NoNumber}}

\* search_logs and searchLogs with a limit of 0, of 1 and without a limit
LimitSearchArgs == {SearchArgs(A, Undefined, l) : l \in {0, 1, NoNumber}}

NextLimit ==
  \/ GetLogsToolCall(LimitLogsArgs)
  \/ GetLogs(LimitFilters)
  \/ SearchLogsToolCall(LimitSearchArgs)
  \/ SearchLogs(LimitSearchArgs)

SpecLimit == InitStored(StoredTables(QueryKinds, 0..MaxClock, MaxRows)) /\ [][NextLimit]_vars

\* C11: a get_logs or search_logs call (and the Log Manager call behind it)
\* that requests a limit of 0 succeeds and returns no row.
C11_LimitZeroAsStated ==
  (resp.op \in {"get_logs", "getLogs", "search_logs", "searchLogs"} /\ resp.args.limit = 0)
    => /\ resp.out.err = NoError
       /\ resp.out.logs = <<>>

(***************************************************************************)
(* Opening a session under a long project name                             *)
(***************************************************************************)
\* a project name of n characters, valid for n in 1..PROJECT_NAME_MAX
NameOfLength(n) == [i \in 1..n |-> "p"]

\* the characters generateNewSessionId puts around the project name
GeneratedAffixLength == Len(generateNewSessionId(<<>>, 0))

\* create_log arguments that open a session: a short project name, the
\* longest one whose generated session id has SessionIdMaxLength characters,
\* the next longer one and the longest valid one
NewSessionInputs ==
  {ToolArgs(NameOfLength(n), A, Undefined, "true") :
     n \in {1, SessionIdMaxLength - GeneratedAffixLength,
            SessionIdMaxLength - GeneratedAffixLength + 1, PROJECT_NAME_MAX}}

NextNewSession ==
  \/ Tick
  \/ CreateLogToolBegin(NewSessionInputs, MaxRows, MaxRows)
  \/ CreateLogInsert
  \/ GetLogs(AllLogsFilters)

SpecNewSession == Init /\ [][NextNewSession]_vars

\* C12: a create_log call with new_session=true, no session_id, a project
\* name of 1 to 100 characters in the project-name format and a valid work
\* content is not refused: the generated session id passes the session-id
\* check of createLog, so the call fails only if the INSERT itself fails in
\* the engine.
C12_NewSessionAsStated ==
  (/\ resp.op = "create_log"
   /\ resp.args.new_session = "true"
   /\ resp.args.session_id = Undefined
   /\ Len(resp.args.project_name) \in 1..PROJECT_NAME_MAX
   /\ ProjectNameFormat(resp.args.project_name)
   /\ resp.args.work_content = A)
    => resp.out.err \in {NoError, StorageError}

(***************************************************************************)
(* The format of the stored projectName and sessionId                      *)
(***************************************************************************)
\* createLog inputs: a well-formed one, and ones whose project name or
\* session id is outside the format of the tool's validators
FormatCreateInputs ==
  {CreateInput(P, A, Undefined),
   CreateInput(<<"-", "p">>, A, S1),
   CreateInput(P, A, <<".", "s">>)}

\* create_log arguments: the same values, and a padded project name
FormatToolInputs ==
  {ToolArgs(P, A, Undefined, "true"),
   ToolArgs(<<" ", "p">>, A, S1, "absent"),
   ToolArgs(<<" ", "p">>, A, Undefined, "true"),
   ToolArgs(<<"-", "p">>, A, S1, "absent"),
   ToolArgs(P, A, <<".", "s">>, "absent")}

NextStoredFormat ==
  \/ Tick
  \/ (pending = {} /\ CreateLogBegin(FormatCreateInputs, MaxRows, MaxRows))
  \/ (pending = {} /\ CreateLogToolBegin(FormatToolInputs, MaxRows, MaxRows))
  \/ CreateLogInsert
  \/ GetLogs(AllLogsFilters)

SpecStoredFormat == Init /\ [][NextStoredFormat]_vars

\* the charset and length rules of a stored projectName and sessionId
ConformingRow(row) ==
  /\ Len(row.project_name) \in 1..PROJECT_NAME_MAX
  /\ ProjectNameFormat(row.project_name)
  /\ SessionIdFormat(row.session_id)

\* C13: every stored row, written by StorageManager.createLog directly or
\* through create_log, has a projectName of 1 to 100 characters in the
\* project-name format and a sessionId that starts with an alphanumeric and
\* holds only alphanumerics, '.', '_' and '-'.
C13_StoredFormatAsStated ==
  \A i \in 1..Len(table) : ConformingRow(table[i])

(***************************************************************************)
(* Dates given to get_logs                                                 *)
(***************************************************************************)
\* C14: get_logs answers with a ValidationError, and runs no query, when
\* start_date or end_date is a string that is not in canonical form (one
\* that toISOString() would not write, such as 2024-01-01T00:00:00Z).
C14_RejectsNonCanonicalAsStated ==
  (/\ resp.op = "get_logs"
   /\ \/ IsSecondString(resp.args.start_date)
      \/ IsSecondString(resp.args.end_date))
    => resp.out.err.type = "ValidationError"

(***************************************************************************)
(* Validation failures and storage access                                  *)
(***************************************************************************)
\* C15: a create call that ends in a ValidationError has issued no storage
\* read before the failure: the session-existence lookup of create_log has
\* not queried the store.
C15_ValidationBeforeStorageAsStated ==
  (resp.op \in CreateOps /\ resp.out.err.type = "ValidationError")
    => ~resp.out.lookup.queried

(***************************************************************************)
(* models/errors.ts and the payload a tool returns                         *)
(***************************************************************************)
\* the module that defines the class of a thrown object: ValidationError is
\* the class of models/validation.ts (models/errors.ts re-exports it),
\* StorageError the class of storage/migration.ts, Error the built-in one.
\* The classes StorageError, SessionError and MCPError of models/errors.ts
\* are constructed by no statement of the storage layer or of the manager.
ErrorClassModule(error) ==
  IF error.type = "ValidationError" THEN "models/validation"
  ELSE IF error.type = "StorageError" THEN "storage/migration"
  ELSE "builtin"

\* the own enumerable properties of a thrown object other than name,
\* message and stack
OwnProperties(error) ==
  IF error.type = "ValidationError" THEN {"field", "providedValue"}
  ELSE IF error.type = "StorageError" THEN {"cause"}
  ELSE {}

\* A payload is described by the keys of the object, the value of its
\* success key ("absent" when it has none), the keys of its error object
\* (none when error is a string or there is no error), the error type and
\* the keys of error.details.
Payload(keys, success, errorKeys, type, details) ==
  [keys |-> keys, success |-> success, errorKeys |-> errorKeys,
   type |-> type, details |-> details]

formatErrorResponse(error) ==
  LET response(type, details) ==
        Payload({"error", "success", "timestamp"}, "false",
                {"type", "message", "details"}, type, details)
      instanceof(name, module) ==
        error.type = name /\ ErrorClassModule(error) = module
  IN  IF instanceof("ValidationError", "models/validation")
      THEN response("ValidationError", {"field", "providedValue"})
      ELSE IF instanceof("StorageError", "models/errors")
      THEN response("StorageError", {"operation", "isRetryable"})
      ELSE IF instanceof("SessionError", "models/errors")
      THEN response("SessionError", {"sessionId"})
      ELSE IF instanceof("MCPError", "models/errors")
      THEN response("MCPError", {"toolName", "code"})
      ELSE response(error.type, OwnProperties(error))

\* JSON.stringify(response) of a call that succeeded
ResultPayload(keys, success) == Payload(keys, success, {}, "", {})

\* the return statements of createLogTool, given the outcome of the call
CreateLogToolPayload(out) ==
  IF out.err = NoError
  THEN ResultPayload({"success", "logId", "sessionId", "timestamp", "message"}, "true")
  ELSE formatErrorResponse(out.err)

\* C16: a failure of the storage engine in a create reaches the caller as a
\* StorageError that carries operation and isRetryable, and the error
\* envelope of create_log reports both in details.
C16_StorageErrorAsStated ==
  (resp.op \in CreateOps /\ resp.out.err.type = "StorageError")
    => /\ {"operation", "isRetryable"} \subseteq OwnProperties(resp.out.err)
       /\ resp.op = "create_log" =>
            {"operation", "isRetryable"} \subseteq CreateLogToolPayload(resp.out).details

(***************************************************************************)
(* The payloads of get_logs, get_session_logs and search_logs.  The limit  *)
(* argument comes with its typeof: args.limit is the number itself, the    *)
(* number a numeric string parses to, and NoNumber for any other value.    *)
(***************************************************************************)
LimitTypes == {"undefined", "number", "numeric string", "text", "boolean"}

WithLimitType(args, t) == args @@ [typeof_limit |-> t]

\* the payload {error: '...'} some return statements of the tools build
BareErrorPayload == Payload({"error"}, "absent", {}, "", {})

\* the validators accepting a limit of any type
validateLimitType_AnyType(t) == NoError

\* `typeof params['limit'] !== 'number'' of validateGetLogsParameters and
\* validateSearchLogsParameters, for a limit that is given
validateLimitType(t) ==
  IF t \notin {"undefined", "number"} THEN ValidationError("limit") ELSE NoError

\* a tool's try block after the validation of the limit's type: the typeof
\* branches on the limit, then the call of the manager whose outcome is out
LimitBranches(t, out, resultKeys) ==
  IF validateLimitType(t) # NoError
  THEN [err |-> validateLimitType(t), payload |-> formatErrorResponse(validateLimitType(t))]
  ELSE IF t = "text" THEN [err |-> NoError, payload |-> BareErrorPayload]
  ELSE IF t \notin {"undefined", "number", "numeric string"}
  THEN [err |-> NoError, payload |-> BareErrorPayload]
  ELSE IF out.err # NoError
  THEN [err |-> out.err, payload |-> formatErrorResponse(out.err)]
  ELSE [err |-> NoError, payload |-> ResultPayload(resultKeys, "absent")]

GetLogsToolPayload(tbl, args, engineTie) ==
  LimitBranches(args.typeof_limit, GetLogsTool(tbl, args, engineTie),
                {"logs", "totalCount", "hasMore"})

\* validateSearchLogsParameters checks the query before the limit
SearchLogsToolPayload(tbl, args, engineTie) ==
  LET verr == validateSearchLogsParameters([args EXCEPT !.limit = NoNumber])
  IN  IF verr # NoError THEN [err |-> verr, payload |-> formatErrorResponse(verr)]
      ELSE IF validateLimitType(args.typeof_limit) = NoError /\ ~IsString(args.query)
      THEN [err |-> NoError, payload |-> BareErrorPayload]
      ELSE LimitBranches(args.typeof_limit, SearchLogsTool(tbl, args, engineTie),
                         {"logs", "totalMatches"})

GetSessionLogsToolPayload(tbl, args, engineTie) ==
  LET out == GetSessionLogsTool(tbl, args, engineTie)
  IN  IF validateGetSessionLogsParameters(args) # NoError
      THEN [err |-> out.err, payload |-> formatErrorResponse(out.err)]
      ELSE IF ~IsString(args.session_id)
      THEN [err |-> NoError, payload |-> BareErrorPayload]
      ELSE IF out.err # NoError
      THEN [err |-> out.err, payload |-> formatErrorResponse(out.err)]
      ELSE [err |-> NoError, payload |-> ResultPayload({"logs", "sessionSummary"}, "absent")]

GetLogsToolAnswer(Inputs) ==
  \E args \in Inputs : Read("get_logs", args, GetLogsToolPayload(table, args, tie))

SearchLogsToolAnswer(Inputs) ==
  \E args \in Inputs : Read("search_logs", args, SearchLogsToolPayload(table, args, tie))

GetSessionLogsToolAnswer(Inputs) ==
  \E args \in Inputs :
    Read("get_session_logs", args, GetSessionLogsToolPayload(table, args, tie))

\* get_logs arguments: a limit of each type, in and out of range
EnvelopeLogsArgs ==
  {WithLimitType(GetLogsArgs(l[1], NoNumber, P, Undefined, NoDate, NoDate), l[2]) :
     l \in {<<NoNumber, "undefined">>, <<1, "number">>, <<0, "number">>,
            <<MAX_LIMIT_VALUE + 1, "number">>, <<1, "numeric string">>,
            <<NoNumber, "text">>, <<NoNumber, "boolean">>}}

\* search_logs arguments: the same limits; a query that is a string, an
\* empty string, absent or not a string; no fields, no field at all, a name
\* that is no field
EnvelopeSearchArgs ==
  {WithLimitType(SearchArgs(A, Undefined, l[1]), l[2]) :
     l \in {<<NoNumber, "undefined">>, <<1, "number">>, <<1, "numeric string">>,
            <<NoNumber, "text">>, <<NoNumber, "boolean">>}}
  \cup {WithLimitType(SearchArgs(q, Undefined, NoNumber), "undefined") :
          q \in {<<>>, Undefined, NonString}}
  \cup {WithLimitType(SearchArgs(A, f, NoNumber), "undefined") :
          f \in {<<>>, <<"log_id">>, <<"thoughts">>}}

\* get_session_logs arguments: a session id, one of 129 characters, an
\* empty one, none, and a value that is not a string
EnvelopeSessionArgs ==
  {[session_id |-> s] : s \in {S1, LongSessionId, <<>>, Undefined, NonString}}

\* getSessionLogs arguments: a session id, one of 129 characters, one
\* holding a blank, and the empty string
MalformedSessionIds == {S1, LongSessionId, <<"s", " ">>, <<>>}

NextEnvelope ==
  \/ Tick
  \/ (pending = {} /\ CreateLogToolBegin(CoreToolInputs, MaxRows, MaxRows))
  \/ CreateLogInsert
  \/ GetLogsToolAnswer(EnvelopeLogsArgs)
  \/ SearchLogsToolAnswer(EnvelopeSearchArgs)
  \/ GetSessionLogsToolAnswer(EnvelopeSessionArgs)
  \/ GetSessionLogs(MalformedSessionIds)

SpecEnvelope == Init /\ [][NextEnvelope]_vars

ToolOps == {"create_log", "get_logs", "get_session_logs", "search_logs"}

\* the payload of the response and the error the call ended with
ToolAnswer(r) ==
  IF r.op = "create_log"
  THEN [err |-> r.out.err, payload |-> CreateLogToolPayload(r.out)]
  ELSE [err |-> r.out.err, payload |-> r.out.payload]

IsErrorEnvelope(p) ==
  /\ p.keys = {"success", "error", "timestamp"}
  /\ p.success = "false"
  /\ p.errorKeys = {"type", "message", "details"}

\* C17: every invocation of create_log, get_logs, get_session_logs or
\* search_logs that fails (it ends with an error, or its payload has an
\* error key) returns the envelope {success: false, error: {type, message,
\* details}, timestamp}, whose type names the class of the error: 'Error'
\* for an exception that is none of the error classes.  An invocation that
\* does not fail returns a payload without an error key.
C17_ErrorEnvelope ==
  resp.op \in ToolOps =>
    LET a == ToolAnswer(resp)
    IN  IF a.err # NoError \/ "error" \in a.payload.keys
        THEN /\ IsErrorEnvelope(a.payload)
             /\ a.payload.type = a.err.type
             /\ a.err # NoError
        ELSE a.payload.success # "false"

\* C17 witness: with a row stored, get_session_logs has failed on the
\* format of a session id its validator accepts, an exception that is none
\* of the error classes, and has returned the envelope with type 'Error'
C17_Witness ==
  /\ Len(table) >= 1
  /\ resp.op = "get_session_logs"
  /\ resp.args.session_id = LongSessionId
  /\ resp.out.err = PlainError
  /\ IsErrorEnvelope(resp.out.payload)
  /\ resp.out.payload.type = "Error"

(***************************************************************************)
(* storage/migration.ts: MigrationManager, SQLiteStorage.initializeStorage *)
(* and SQLiteStorage.close                                                 *)
(***************************************************************************)
MigrationVersions == {1}

MaxOf(S) == CHOOSE v \in S : \A w \in S : w <= v

\* no schema_migrations table means version 0; MAX(version) over no row is
\* NULL, which `?? 0' turns into 0
\* the recorded versions are not read
getCurrentVersion_IgnoresRecords(d) == 0

getCurrentVersion(d) ==
  IF "schema_migrations" \notin View(d).objects THEN 0
  ELSE IF View(d).versions = {} THEN 0
  ELSE MaxOf(View(d).versions)

\* ROLLBACK: the changes of the open transaction are undone
Rollback(d) == [d EXCEPT !.txn = <<>>]

\* Where a migration can fail: in db.exec after `done' of its statements,
\* in the INSERT that records the version, or in COMMIT.  A COMMIT that
\* fails on a lock (SQLITE_BUSY) leaves the transaction open; one that
\* fails on I/O or a full disk is rolled back by the engine.
MigrationFailures == {"none", "exec", "record", "commit busy", "commit rolled back"}

\* applyMigration: BEGIN TRANSACTION, the statements of the migration, the
\* record of its version, COMMIT; ROLLBACK when exec or the record fails.
\* A CREATE of an object the connection already sees fails.
applyMigration(d, version, fail, done) ==
  LET begun == View(d)
      created(k) == {MigrationObjects[i] : i \in 1..k}
      clash == begun.objects \cap created(Len(MigrationObjects)) # {}
      partial == [begun EXCEPT !.objects = @ \cup created(IF clash THEN 0 ELSE done)]
      executed == [begun EXCEPT !.objects = @ \cup created(Len(MigrationObjects))]
      recorded == [executed EXCEPT !.versions = @ \cup {version}]
  IN  IF fail = "exec" \/ clash
      THEN [db |-> Rollback([d EXCEPT !.txn = <<partial>>]), err |-> StorageError]
      ELSE IF fail = "record"
      THEN [db |-> Rollback([d EXCEPT !.txn = <<executed>>]), err |-> StorageError]
      ELSE IF fail = "commit busy"
      THEN [db |-> [d EXCEPT !.txn = <<recorded>>], err |-> StorageError]
      ELSE IF fail = "commit rolled back"
      THEN [db |-> [d EXCEPT !.txn = <<>>], err |-> StorageError]
      ELSE [db |-> [d EXCEPT !.committed = recorded, !.txn = <<>>], err |-> NoError]

\* pendingMigrations.sort((a, b) => a.version - b.version)
RECURSIVE SortByVersion(_)
SortByVersion(S) ==
  IF S = {} THEN <<>>
  ELSE LET least == CHOOSE v \in S : \A w \in S : v <= w
       IN  <<least>> \o SortByVersion(S \ {least})

\* the loop of runMigrations: each migration awaited in turn, the first
\* rejection ending the loop; failAt is the version whose migration meets
\* the failure, applied the versions applied so far; attempted adds the
\* version whose migration was rejected
RECURSIVE ApplyInTurn(_, _, _, _, _, _)
ApplyInTurn(d, versions, failAt, fail, done, applied) ==
  IF versions = <<>>
  THEN [db |-> d, err |-> NoError, applied |-> applied, attempted |-> applied]
  ELSE LET migrated == applyMigration(d, Head(versions),
                                      IF Head(versions) = failAt THEN fail ELSE "none",
                                      done)
       IN  IF migrated.err # NoError
           THEN [db |-> migrated.db, err |-> migrated.err, applied |-> applied,
                 attempted |-> Append(applied, Head(versions))]
           ELSE ApplyInTurn(migrated.db, Tail(versions), failAt, fail, done,
                            Append(applied, Head(versions)))

\* runMigrations: the migrations above the current version, sorted by
\* version and applied in turn (the program defines one migration)
runMigrations(d, failAt, fail, done) ==
  LET currentVersion == getCurrentVersion(d)
      pendingMigrations == {v \in MigrationVersions : v > currentVersion}
  IN  ApplyInTurn(d, SortByVersion(pendingMigrations), failAt, fail, done, <<>>)

\* SQLiteStorage.initializeStorage: nothing when isInitialized; the PRAGMAs
\* of initializeDatabase fail on a closed handle, and PRAGMA synchronous
\* fails inside an open transaction; every failure is rethrown as
\* StorageError('Failed to initialize storage')
InitializeStorage ==
  \E failAt \in MigrationVersions, fail \in MigrationFailures,
     done \in 0..(Len(MigrationObjects) - 1) :
    LET none(e) == [db |-> db, err |-> e, applied |-> <<>>, attempted |-> <<>>]
        ran == IF db.isInitialized THEN none(NoError)
               ELSE IF ~db.open \/ db.txn # <<>> THEN none(StorageError)
               ELSE runMigrations(db, failAt, fail, done)
    IN  /\ db' = IF ran.err = NoError THEN [ran.db EXCEPT !.isInitialized = TRUE]
                                      ELSE ran.db
        /\ resp' = [op |-> "initialize", args |-> <<>>,
                    out |-> [err |-> ran.err, applied |-> ran.applied,
                             attempted |-> ran.attempted,
                             skipped |-> db.isInitialized]]
        /\ UNCHANGED <<table, clock, pending, ledger, tie, reading>>

\* SQLiteStorage.close: db.close(callback).  On a handle already closed the
\* driver calls back with SQLITE_MISUSE, which close() rejects with as
\* StorageError('Failed to close database').  The driver runs close after
\* the statements in flight; closing rolls an open transaction back, and
\* with it the rows, all written since the migration that opened it.
Close ==
  /\ pending = {}
  /\ db' = IF db.open THEN [db EXCEPT !.open = FALSE, !.txn = <<>>] ELSE db
  /\ table' = IF db.open /\ db.txn # <<>> THEN <<>> ELSE table
  /\ resp' = [op |-> "close", args |-> <<>>,
              out |-> [err |-> IF db.open THEN NoError ELSE StorageError]]
  /\ UNCHANGED <<clock, pending, ledger, tie, reading>>

\* new SQLiteStorage(databasePath) on the store of an instance that was
\* closed: a new handle, isInitialized = false, the committed schema and
\* rows as they are
Reopen ==
  /\ ~db.open
  /\ db' = [db EXCEPT !.open = TRUE, !.isInitialized = FALSE]
  /\ resp' = [op |-> "open", args |-> <<>>, out |-> [err |-> NoError]]
  /\ UNCHANGED <<table, clock, pending, ledger, tie, reading>>

\* valid StorageManager.createLog inputs
LifecycleCreateInputs == {CreateInput(P, A, S1), CreateInput(Q, A, Undefined)}

\* construction, initializeStorage, the storage operations and close
InitLifecycle ==
  /\ table = <<>>
  /\ clock = 0
  /\ pending = {}
  /\ resp = NoResponse
  /\ ledger = <<>>
  /\ tie \in {"rowid", "reverse"}
  /\ db = FreshDb
  /\ reading = {}

NextLifecycle ==
  \/ InitializeStorage
  \/ Close
  \/ CreateLogBegin(LifecycleCreateInputs, MaxRows, 1)
  \/ CreateLogInsert
  \/ GetLogs(AllLogsFilters)
  \/ GetSessionLogs(SessionOneIds)
  \/ SearchLogs(PlainSearchArgs)
  \/ GetProjectSummary(SummaryArgs)

SpecLifecycle == InitLifecycle /\ [][NextLifecycle]_vars

\* C18: an initialize in which applying the migration fails (in its SQL, in
\* recording its version or in committing) leaves the schema the connection
\* sees and the recorded version as they were before the attempt, so the
\* migration is still pending for a later initialize.
C18_MigrationAtomicAsStated ==
  [][(resp'.op = "initialize" /\ resp'.out.err # NoError /\ db.open)
       => /\ View(db') = View(db)
          /\ getCurrentVersion(db') = getCurrentVersion(db)
          /\ ~db'.isInitialized]_vars

StorageOps == {"createLog", "getLogs", "getSessionLogs", "searchLogs", "getProjectSummary"}

\* C19: a close on a handle that is open succeeds and closes it; a close
\* after that succeeds too and changes nothing; a storage operation made
\* after close fails with a StorageError, and no step after close changes
\* the table.
C19_CloseAsStated ==
  [][/\ (resp'.op = "close" /\ resp' # resp) => resp'.out.err = NoError /\ ~db'.open
     /\ ~db.open =>
          /\ db' = db
          /\ table' = table
          /\ ledger' = ledger
          /\ resp'.op \in StorageOps => resp'.out.err = StorageError]_vars

(***************************************************************************)
(* getSessionLogs on a malformed session id                                *)
(***************************************************************************)
\* C20: getSessionLogs on a session id outside the Session Identity format
\* (through the manager, or through get_session_logs when the tool's
\* validator lets the id pass) fails with a SessionError that carries the
\* offending sessionId.
C20_SessionErrorAsStated ==
  LET malformed(sessionId) == IsString(sessionId) /\ ~isValidSessionId(sessionId)
      failing == \/ resp.op = "getSessionLogs" /\ malformed(resp.args)
                 \/ /\ resp.op = "get_session_logs"
                    /\ malformed(resp.args.session_id)
                    /\ validateGetSessionLogsParameters(resp.args) = NoError
  IN  failing => /\ resp.out.err.type = "SessionError"
                 /\ "sessionId" \in OwnProperties(resp.out.err)

(***************************************************************************)
(* The length of a search query                                            *)
(***************************************************************************)
\* a query of n characters
QueryOfLength(n) == [i \in 1..n |-> "x"]

\* queries at both length limits of the two validators, one character
\* over each, a query whose blanks bring it over the lower limit, and the
\* empty and the blank query
QueryLengthArgs ==
  {SearchArgs(q, Undefined, NoNumber) :
     q \in {QueryOfLength(n) : n \in {1, ValidationQueryMax, ValidationQueryMax + 1,
                                      SEARCH_QUERY_MAX, SEARCH_QUERY_MAX + 1}}
           \cup {QueryOfLength(ValidationQueryMax) \o <<" ">>, <<" ">>, <<>>}}

NextQueryLength ==
  \/ SearchLogsToolCall(QueryLengthArgs)
  \/ SearchLogs(QueryLengthArgs)

SpecQueryLength == InitStored(SearchTables) /\ [][NextQueryLength]_vars

\* C21 as stated: search_logs executes every query that is non-empty after
\* trimming and at most 1000 characters long, and rejects only the empty or
\* blank query and the query of more than 1000 characters, with a
\* ValidationError on field query.
C21_QueryLengthAsStated ==
  resp.op = "search_logs" =>
    LET query == Trim(resp.args.query)
    IN  IF Len(query) >= 1 /\ Len(query) <= SEARCH_QUERY_MAX
        THEN resp.out.err = NoError
        ELSE resp.out.err = ValidationError("query")

(***************************************************************************)
(* Sanitization of the narrative fields stored through create_log          *)
(***************************************************************************)
MaxMarkupLen == 3

\* texts of markup characters and a letter, of every shape up to
\* MaxMarkupLen
MarkupTexts == UNION {[1..n -> {"<", ">", "a"}] : n \in 1..MaxMarkupLen}

\* <s>a</s>b, and texts holding entity references outside any tag
TaggedText == <<"<", "s", ">", "a", "<", "/", "s", ">", "b">>

EntityTexts ==
  {<<"a", "&", "g", "t", ";">>,
   <<"&", "l", "t", ";", "b", "&", "g", "t", ";">>,
   <<"&", "a", "m", "p", ";", "l", "t", ";">>,
   <<"&", "q", "u", "o", "t", ";">>,
   <<"&", "<", "b", ">", "#", "x", "2", "7", ";">>}

\* create_log calls opening a session, with the text as work content or as
\* one of the optional fields
MarkupToolInputs ==
  {ToolArgs(P, w, Undefined, "true") : w \in MarkupTexts \cup EntityTexts \cup {TaggedText}}
  \cup {WithOptional(ToolArgs(P, A, Undefined, "true"), Undefined, Undefined, w, w) :
          w \in {<<"<">>, <<"<", "a", ">">>, <<"a", "<", ">">>, TaggedText,
                 <<"a", "&", "g", "t", ";">>}}

NextMarkup ==
  \/ CreateLogToolBegin(MarkupToolInputs, 1, 1)
  \/ CreateLogInsert

SpecMarkup == Init /\ [][NextMarkup]_vars

NarrativeFields == {"work_content", "successes", "failures", "blockers", "thoughts"}

\* position i of s lies in a tag: a "<" at or before i is followed by its
\* first ">" at or after i
InTag(s, i) ==
  \E a \in 1..i :
    /\ s[a] = "<"
    /\ \A k \in a..(i - 1) : s[k] # ">"
    /\ \E b \in i..Len(s) : s[b] = ">"

\* the characters of s outside its tags, in their order
OutsideTags(s) ==
  LET kept == {i \in 1..Len(s) : ~InTag(s, i)}
  IN  [n \in 1..Cardinality(kept) |->
         s[CHOOSE i \in kept : Cardinality({j \in kept : j < i}) = n - 1]]

\* every "<" of s written as &lt;
EncodeLt(s) == ReplaceAll(s, <<"<">>, <<"&", "l", "t", ";">>)

\* the references &lt; &gt; &amp; &quot; &#x27; of s decoded, one pass for
\* each in that order
DecodeEntities(s) ==
  ReplaceAll(ReplaceAll(ReplaceAll(ReplaceAll(ReplaceAll(s,
    <<"&", "l", "t", ";">>, <<"<">>),
    <<"&", "g", "t", ";">>, <<">">>),
    <<"&", "a", "m", "p", ";">>, <<"&">>),
    <<"&", "q", "u", "o", "t", ";">>, <<"\"">>),
    <<"&", "#", "x", "2", "7", ";">>, <<"'">>)

\* P(stored, submitted) of every narrative field that a successful
\* create_log has stored
StoredNarrative(Holds(_, _)) ==
  \A i \in 1..Len(ledger), k \in 1..Len(table) :
    (ledger[i].op = "create_log" /\ table[k].log_id = ledger[i].out.logId) =>
      \A f \in NarrativeFields :
        table[k][f] # NULL => Holds(table[k][f], ledger[i].args[f])

NoLt(stored) == \A a \in 1..Len(stored) : stored[a] # "<"

PreservedOutsideTags(stored, submitted) ==
  /\ NoLt(stored)
  /\ stored = Trim(EncodeLt(OutsideTags(submitted)))

DecodedOutsideTags(stored, submitted) ==
  /\ NoLt(stored)
  /\ stored = Trim(EncodeLt(DecodeEntities(OutsideTags(submitted))))

\* C22 as stated: every narrative field stored through create_log holds no
\* "<" (so no "<" followed by ">"; a leftover "<" is stored as &lt;), and it
\* is the submitted text outside the removed tags, in its original order.
C22_SanitizedAsStated == StoredNarrative(PreservedOutsideTags)

\* C22 amended: the same, except that the entity references &lt; &gt; &amp;
\* &quot; &#x27; of the text outside the removed tags are decoded before the
\* "<" are encoded.
C22_Sanitized == StoredNarrative(DecodedOutsideTags)

\* C22 witness: <s>a</s>b was submitted as work content and the row stored
\* for it holds ab
C22_Witness ==
  \E i \in 1..Len(ledger), k \in 1..Len(table) :
    /\ ledger[i].op = "create_log"
    /\ table[k].log_id = ledger[i].out.logId
    /\ ledger[i].args.work_content = TaggedText
    /\ table[k].work_content = <<"a", "b">>

(***************************************************************************)
(* The derived views: getRecentSessions, getLatestSession, getAllProjects  *)
(***************************************************************************)
ViewSessionsArgs ==
  {[limit |-> l, projectName |-> p] : l \in {NoNumber, 1, 2}, p \in {Undefined, P, Q}}

ViewProjects == {P, Q}

NextViews ==
  \/ GetRecentSessions(ViewSessionsArgs)
  \/ GetLatestSession(ViewProjects)
  \/ GetAllProjects

SpecViews == InitStored(StoredTables(QueryKinds, 0..MaxClock, MaxRows)) /\ [][NextViews]_vars

\* the rows of a project, every row when no project is given
RowsOfProject(projectName) ==
  {i \in 1..Len(table) : projectName = Undefined \/ table[i].project_name = projectName}

\* the latest timestamp among the rows S
LatestOf(S) == CHOOSE t \in {table[i].timestamp : i \in S} :
                 \A i \in S : table[i].timestamp <= t

\* summary is the summary of its session over the rows S
SummaryOver(summary, S) ==
  LET own == {i \in S : table[i].session_id = summary.sessionId}
  IN  /\ own # {}
      /\ summary.lastActivity = LatestOf(own)
      /\ summary.logCount = Cardinality(own)
      /\ \E i \in own : /\ table[i].timestamp = summary.lastActivity
                        /\ table[i].project_name = summary.projectName

\* C23: getRecentSessions returns one summary per distinct sessionId of the
\* rows matching the project filter, with lastActivity the latest timestamp
\* of the session's rows, projectName the project of a row holding it and
\* logCount the number of the session's matching rows, sorted by
\* lastActivity descending and truncated to limit; getLatestSession returns
\* the session of an entry holding the project's latest timestamp, or null
\* when the project has no rows.
C23_SessionViews ==
  /\ resp.op = "getRecentSessions" =>
       LET S == RowsOfProject(resp.args.projectName)
           sessions == {table[i].session_id : i \in S}
           limit == IF resp.args.limit = NoNumber THEN DefaultSessionsLimit
                    ELSE resp.args.limit
           out == resp.out.sessions
       IN  /\ resp.out.err = NoError
           /\ Len(out) = Min(limit, Cardinality(sessions))
           /\ \A k \in 1..Len(out) : SummaryOver(out[k], S)
           /\ \A k, l \in 1..Len(out) :
                k < l => /\ out[k].sessionId # out[l].sessionId
                         /\ out[k].lastActivity >= out[l].lastActivity
           /\ \A s \in sessions :
                (\A k \in 1..Len(out) : out[k].sessionId # s) =>
                  \A k \in 1..Len(out) :
                    out[k].lastActivity >= LatestOf({i \in S : table[i].session_id = s})
  /\ resp.op = "getLatestSession" =>
       LET S == RowsOfProject(resp.args)
           out == resp.out.sessions
       IN  /\ resp.out.err = NoError
           /\ S = {} => out = <<>>
           /\ S # {} =>
                /\ Len(out) = 1
                /\ SummaryOver(out[1], S)
                /\ out[1].lastActivity = LatestOf(S)

\* C23 witness: getRecentSessions without a project has summarised a
\* session whose two rows lie in different projects at different instants
C23_Witness ==
  /\ resp.op = "getRecentSessions"
  /\ resp.args.projectName = Undefined
  /\ Len(table) = 2
  /\ table[1].session_id = table[2].session_id
  /\ table[1].project_name # table[2].project_name
  /\ table[1].timestamp > table[2].timestamp
  /\ Len(resp.out.sessions) = 1
  /\ resp.out.sessions[1].logCount = 2
  /\ resp.out.sessions[1].projectName = table[1].project_name

(***************************************************************************)
(* The migrations applied by initializeStorage, over instances of a store  *)
(***************************************************************************)
\* at most MaxRows creates succeed over all the instances
NextMigration ==
  \/ InitializeStorage
  \/ Close
  \/ Reopen
  \/ (Len(ledger) < MaxRows /\ CreateLogBegin(LifecycleCreateInputs, MaxRows, 1))
  \/ CreateLogInsert
  \/ GetLogs(AllLogsFilters)

SpecMigration == InitLifecycle /\ [][NextMigration]_vars

\* the version the store records: the highest committed one, 0 without one
RecordedVersion(d) ==
  IF d.committed.versions = {} THEN 0
  ELSE CHOOSE v \in d.committed.versions : \A w \in d.committed.versions : w <= v

HighestVersion == CHOOSE v \in MigrationVersions : \A w \in MigrationVersions : w <= v

Elements(s) == {s[k] : k \in 1..Len(s)}

CreateLogToolBeginUnread(Inputs, maxRows, maxPending) ==
  /\ Len(table) + Cardinality(pending) < maxRows
  /\ Cardinality(pending) < maxPending
  /\ \E args \in Inputs, logUuid \in LogUuids, sessionUuid \in SessionUuids :
       LET prepared == CreateLogToolPrepare(table, args, logUuid, sessionUuid, clock, tie)
       IN  /\ prepared.lookup.queried
           /\ BeginCreate("create_log", args,
                          [prepared EXCEPT !.lookup = [queried |-> TRUE,
                                                       warning |-> "could not validate"]])

\* valid create_log arguments naming a session: one session in either
\* project, another with new_session false, and an id of 129 characters,
\* which the tool's validator accepts and the session identity refuses
LookupToolInputs ==
  {ToolArgs(P, A, S1, "absent"), ToolArgs(Q, A, S1, "absent"),
   ToolArgs(P, A, S2, "false"), ToolArgs(P, A, LongSessionId, "absent")}

NextLookup ==
  \/ CreateLogToolBegin(LookupToolInputs, MaxRows, 1)
  \/ CreateLogToolBeginUnread(LookupToolInputs, MaxRows, 1)
  \/ CreateLogInsert

SpecLookup == Init /\ [][NextLookup]_vars

\* the lookup of the call found no entry of the session, none in the
\* project, or failed
LookupWarned(r) == r.out.lookup.warning \in {"no existing logs", "no logs for project",
                                             "could not validate"}

NewSessionCreates ==
  {i \in 1..Len(ledger) : /\ ledger[i].op = "create_log"
                          /\ ledger[i].out.message = "New session created"}

\* C26 as stated: any two successful create_log calls with new_session=true
\* return different sessionIds, also when they are made for the same project
\* concurrently or within the same millisecond, and the id of a new session
\* is not the id of a session that already has stored entries.
C26_UniqueNewSessionsAsStated ==
  /\ \A i, j \in NewSessionCreates :
       i # j => ledger[i].out.sessionId # ledger[j].out.sessionId
  /\ \A i \in NewSessionCreates :
       \A j \in 1..(i - 1) : ledger[j].out.sessionId # ledger[i].out.sessionId

(***************************************************************************)
(* The columns a search statement tests                                    *)
(***************************************************************************)
\* fields arguments: absent, one or two of the five narrative fields, the
\* empty array, another column of the table, and a name that is no column
FieldsValues ==
  {Undefined, <<"successes">>, <<"work_content", "thoughts">>, <<>>,
   <<"project_name">>, <<"work_content", "nope">>}

FieldsArgs == {SearchArgs(A, f, NoNumber) : f \in FieldsValues}

NextFields ==
  \/ SearchLogs(FieldsArgs)
  \/ SearchLogsToolCall(FieldsArgs)

SpecFields == InitStored(SearchTables) /\ [][NextFields]_vars

\* C27 as stated: every search statement handed to the engine tests a
\* non-empty list of columns, each one of work_content, successes,
\* failures, blockers, thoughts, whatever fields argument searchLogs or
\* search_logs was given; a fields value that is not such a list (the empty
\* array, a name outside the five) ends in a validation failure and in no
\* statement.
C27_SearchColumnsAsStated ==
  resp.op \in {"searchLogs", "search_logs"} =>
    LET fields == resp.args.fields
        proper == \/ fields = Undefined
                  \/ /\ fields # <<>>
                     /\ \A k \in 1..Len(fields) : fields[k] \in ValidSearchFields
    IN  /\ "tested" \in DOMAIN resp.out =>
             /\ resp.out.tested # <<>>
             /\ \A k \in 1..Len(resp.out.tested) : resp.out.tested[k] \in ValidSearchFields
        /\ ~proper => /\ resp.out.err.type = "ValidationError"
                      /\ "tested" \notin DOMAIN resp.out

(***************************************************************************)
(* Reads against concurrent creates.  getLogs awaits its COUNT statement   *)
(* and then its SELECT, getSessionLogs its SELECT and then its summary     *)
(* statement; neither opens a transaction, so the INSERT of a createLog    *)
(* can run between the two statements of a read.                           *)
(***************************************************************************)

\* the log_ids of the rows the WHERE clause of getLogs selects
MatchingLogs(tbl, filters) ==
  {tbl[i].log_id : i \in {j \in 1..Len(tbl) : WhereLogs(tbl[j], filters)}}

\* getLogs up to the end of its first statement: the manager validates and
\* normalises, the engine counts.  A refused call answers at once.
GetLogsCount(Inputs) ==
  /\ CanRun(db)
  /\ reading = {}
  /\ \E filters \in Inputs :
       LET out == ManagerGetLogs(table, filters, tie)
       IN  IF out.err # NoError
           THEN /\ resp' = [op |-> "getLogs", args |-> filters, out |-> out]
                /\ UNCHANGED reading
           ELSE /\ reading' = {[op |-> "getLogs", args |-> filters,
                                totalCount |-> out.totalCount,
                                counted |-> MatchingLogs(table, NormalizeFilters(filters))]}
                /\ UNCHANGED resp
  /\ UNCHANGED <<table, clock, pending, ledger, tie, db>>

\* the second statement of getLogs and its return: the page is read from
\* the table as it is now, totalCount is what the first statement gave
GetLogsData ==
  /\ CanRun(db)
  /\ \E r \in reading :
       /\ r.op = "getLogs"
       /\ LET f == NormalizeFilters(r.args)
              logs == SQLiteGetLogs(table, f, tie).logs
          IN  resp' = [op |-> "getLogs", args |-> r.args,
                       out |-> [err |-> NoError, logs |-> logs,
                                totalCount |-> r.totalCount,
                                hasMore |-> f.offset + Len(logs) < r.totalCount],
                       counted |-> r.counted]
       /\ reading' = reading \ {r}
  /\ UNCHANGED <<table, clock, pending, ledger, tie, db>>

\* getSessionLogs up to the end of its first statement, which reads the
\* rows of the session
GetSessionLogsRows(Inputs) ==
  /\ CanRun(db)
  /\ reading = {}
  /\ \E sessionId \in Inputs :
       LET out == ManagerGetSessionLogs(table, sessionId, tie)
       IN  IF out.err # NoError
           THEN /\ resp' = [op |-> "getSessionLogs", args |-> sessionId, out |-> out]
                /\ UNCHANGED reading
           ELSE /\ reading' = {[op |-> "getSessionLogs", args |-> sessionId,
                                logs |-> out.logs]}
                /\ UNCHANGED resp
  /\ UNCHANGED <<table, clock, pending, ledger, tie, db>>

\* the second statement of getSessionLogs and its return: COUNT, MIN and
\* MAX are taken over the table as it is now
GetSessionLogsSummary ==
  /\ CanRun(db)
  /\ \E r \in reading :
       /\ r.op = "getSessionLogs"
       /\ resp' = [op |-> "getSessionLogs", args |-> r.args,
                   out |-> [err |-> NoError, logs |-> r.logs,
                            sessionSummary |->
                              SQLiteGetSessionLogs(table, r.args, tie).sessionSummary]]
       /\ reading' = reading \ {r}
  /\ UNCHANGED <<table, clock, pending, ledger, tie, db>>

\* getLogs with its defaults and with a page of one row, both from the
\* first row
InterleavedFilters ==
  {NoFilters, Filters(1, NoNumber, Undefined, Undefined, NoDate, NoDate)}

InterleavedSessions == {S1}

NextInterleaved ==
  \/ Tick
  \/ CreateLogBegin(LifecycleCreateInputs, MaxRows, 1)
  \/ CreateLogInsert
  \/ GetLogsCount(InterleavedFilters)
  \/ GetLogsData
  \/ GetSessionLogsRows(InterleavedSessions)
  \/ GetSessionLogsSummary

SpecInterleaved == Init /\ [][NextInterleaved]_vars

\* C28: whatever createLog does between the two statements of a read, a
\* getLogs response from the first row returns no more logs than its
\* totalCount and, when its hasMore is false, returns every row that
\* matched when the count was taken; a getSessionLogs response has a
\* sessionSummary.totalLogs equal to the number of logs it returns.
C28_ConsistentReadsAsStated ==
  /\ (resp.op = "getLogs" /\ resp.out.err = NoError)
       => /\ Len(resp.out.logs) <= resp.out.totalCount
          /\ ~resp.out.hasMore => resp.counted \subseteq LogIdsOf(resp.out.logs)
  /\ (resp.op = "getSessionLogs" /\ resp.out.err = NoError)
       => resp.out.sessionSummary.totalLogs = Len(resp.out.logs)

(***************************************************************************)
(* Lengths of the stored narrative fields.  create_log checks the lengths  *)
(* of its arguments and stores what sanitizeHtml makes of them.            *)
(***************************************************************************)

\* the text of n characters c
RECURSIVE Repeat(_, _)
Repeat(c, n) ==
  IF n = 0 THEN <<>>
  ELSE LET half == Repeat(c, n \div 2)
       IN  IF n % 2 = 0 THEN half \o half ELSE half \o half \o <<c>>

\* texts within the limits of create_log: unmatched "<" characters, a
\* tag around them, and plain text
LongTexts ==
  {Repeat("<", 2501), Repeat("<", 2500), <<"<", "b", ">">> \o Repeat("<", 2501),
   Repeat("x", 2501)}

\* create_log calls opening a session with a long text as work content or
\* as optional fields, and calls whose work content is over the limit or
\* is nothing but a tag
LongToolInputs ==
  {ToolArgs(P, w, Undefined, "true") : w \in LongTexts}
  \cup {WithOptional(ToolArgs(P, A, Undefined, "true"), w, Undefined, Undefined, w) :
          w \in LongTexts}
  \cup {ToolArgs(P, Repeat("x", WORK_CONTENT_MAX + 1), Undefined, "true"),
        ToolArgs(P, <<"<", "b", ">">>, Undefined, "true")}

NextLongText ==
  \/ Tick
  \/ CreateLogToolBegin(LongToolInputs, 1, 1)
  \/ CreateLogInsert

SpecLongText == Init /\ [][NextLongText]_vars

\* C29: every row stored through create_log has a work_content that is
\* non-empty after trimming and at most 10,000 characters long, and each
\* of successes, failures, blockers and thoughts of the row is absent or at
\* most 10,000 characters long.
C29_StoredLengthsAsStated ==
  \A i \in 1..Len(table) :
    /\ IsString(table[i].work_content)
    /\ Len(Trim(table[i].work_content)) > 0
    /\ Len(table[i].work_content) <= WORK_CONTENT_MAX
    /\ \A f \in {"successes", "failures", "blockers", "thoughts"} :
         table[i][f] = NULL \/ Len(table[i][f]) <= OPTIONAL_FIELD_MAX

\* C30: getAllProjects returns exactly one entry per distinct project name
\* of the 1000 most recent rows (here all the rows of the table), with
\* totalLogs the number of the project's rows and lastActivity their
\* latest timestamp, sorted by lastActivity descending.
C30_ProjectsAsStated ==
  (resp.op = "getAllProjects" /\ resp.out.err = NoError) =>
    LET out == resp.out.projects
        names == {table[i].project_name : i \in 1..Len(table)}
    IN  /\ Len(out) = Cardinality(names)
        /\ \A k \in 1..Len(out) :
             /\ out[k].projectName \in names
             /\ out[k].totalLogs = Cardinality(RowsOfProject(out[k].projectName))
             /\ out[k].lastActivity = LatestOf(RowsOfProject(out[k].projectName))
        /\ \A k, l \in 1..Len(out) :
             k < l => /\ out[k].projectName # out[l].projectName
                      /\ out[k].lastActivity >= out[l].lastActivity

====
